---- MODULE Spec2Model ----
(***************************************************************************)
(* Genie: the session-scoped request/response fabric between a client and  *)
(* a server that only share a data plane (a directory or a bucket).        *)
(*                                                                         *)
(* The model follows the newest revision of each component in the source:  *)
(*   server      src/unnamed/part_006 (lines 1-297)                        *)
(*   object store transport  src/unnamed/part_003                          *)
(*   filesystem transport    src/dev/genie/pkg/transport/fs.go             *)
(*   protocol    src/dev/genie/pkg/protocol/protocol.go                    *)
(* Time is abstract: a deadline may fire at any moment after it was set.   *)
(***************************************************************************)
EXTENDS Integers, Sequences, FiniteSets, Bags, TLC

(***************************************************************************)
(* Bounds of the model.                                                    *)
(***************************************************************************)
MaxId == 2
MaxPolls == 1

(***************************************************************************)
(* Program constants.                                                      *)
(***************************************************************************)
ChanCap == 10

\* The most objects a listing of the bucket returns.
MaxListed == 12

Sessions == {"s1", "s2"}
Clients == {"c1", "c2"}
Backends == {"s3", "fs"}

\* Message ids a client may pick, and the ids a payload may carry: 0 is the
\* zero value of Request.ID, which kubectlCmd never sets.
MsgIds == 1..MaxId
FileIds == 0..MaxId

CallTypeUnary == "unary"
CallTypeStream == "stream"
CallTypes == {CallTypeUnary, CallTypeStream}
Cmds == {"kubectl", "helm"}
ArgLists == {<<>>, <<"get">>, <<"describe">>, <<"delete">>}

\* A child's exit status as os.ProcessState.ExitCode reports it: -1 for a
\* child ended by a signal.
ExitCodes == {0, 1, -1}
Outputs == {"NAME STATUS"}

(***************************************************************************)
(* Protocol: Request, Response, and their encodings.                       *)
(***************************************************************************)
Request(sid, id, type, cmd, args) ==
    [id |-> id, type |-> type, cmd |-> cmd, args |-> args, sessionID |-> sid]

Response(requestID, sequenceID, exitCode, output) ==
    [requestID |-> requestID, sequenceID |-> sequenceID,
     exitCode |-> exitCode, output |-> output]

\* The bytes of a message: a well-formed document of one of the two kinds,
\* or bytes that are no document at all.
Garbage == [wf |-> FALSE]

MarshalRequest(req) == [wf |-> TRUE, kind |-> "request", doc |-> req]

MarshalResponse(res) == [wf |-> TRUE, kind |-> "response", doc |-> res]

UnmarshalRequest(data) ==
    IF data.wf /\ data.kind = "request"
    THEN [req |-> data.doc, err |-> FALSE]
    ELSE [err |-> TRUE]

Message(id, data) == [ID |-> id, SequenceID |-> 0, Data |-> data]

\* An absent file or object.
NoFile == [present |-> FALSE]

File(data) == [data |-> data, present |-> TRUE]

VARIABLES
    backend,        \* the Transport NewTransport built: "fs" or "s3"
    binaries,       \* HandlerConfig.Binaries: the cmd names with a binary
    marker,         \* the sessions whose marker exists
    reqs,           \* reqs[s][n]: the file <n>-req.yaml of session s
    ress,           \* ress[s][n]: the file <n>-res.yaml of session s
    resWrites,      \* resWrites[s][n]: how often <n>-res.yaml was written
    rootCancelled,  \* the server's root context is done
    crashed,        \* the server process died of a panic
    hpc,            \* hpc[s]: where SessionHandler.Run of session s is
    fwd,            \* fwd[s]: the goroutine that pushes requests on the stream
    outBuf,         \* outBuf[s]: the messages buffered in WatchRequests' stream
    outClosed,      \* outClosed[o]: the out channel of subscription o is closed
    emitted,        \* emitted[s][n]: how often request n was sent on the stream
    tasks,          \* tasks[s]: the running handleRequest calls (a bag)
    refused,        \* the requests a handler refused, with the error it logged
    children,       \* children[s]: the requests whose child process runs (a bag)
    timeouts,       \* the timeouts handleRequest computed, with their inputs
    cl,             \* cl[c]: the SendUnary call of client c
    subs,           \* subs[o]: FSTransport's subscriber of subscription o
    events,         \* events[p]: the file events process p's watcher holds
    mk,             \* mk[c]: the CreateSession call of client c
    creates,        \* creates[s]: how many CreateSession calls of s succeeded
    ws,             \* the WatchSessions subscription of GenieServer.Run
    sessEmitted,    \* sessEmitted[s]: how often s was sent on its stream
    disp,           \* GenieServer: the sessions map, its mutex, the handlers
    lastCall,       \* a GetLastRequestID call: the names listed, the result
    sentIds,        \* sentIds[c]: the ids of the requests Client.Send of c wrote
    codec,          \* the messages that were encoded and decoded again
    initial         \* an S3 Watch call: its initial list and its stream

vars == <<backend, binaries, marker, reqs, ress, resWrites, rootCancelled,
          crashed, hpc, fwd, outBuf, outClosed, emitted, tasks,
          refused, cl, subs, events, mk, creates, ws, sessEmitted, disp, lastCall,
          sentIds, children, timeouts, codec, initial>>

configVars == <<backend, binaries>>
storeVars == <<marker, reqs, ress, resWrites>>
handlerVars == <<hpc, fwd, outBuf, emitted>>
taskVars == <<tasks, refused, children, timeouts>>
fsVars == <<subs, events>>
sessVars == <<mk, creates, ws, sessEmitted, disp>>
sendVars == <<lastCall, sentIds, codec, initial>>

\* The subscription of GenieServer.Run to the stream of sessions.
SessionsWatch == "watch"

\* A subscription is owned by the session handler of a session (WatchRequests),
\* by the SendUnary call of a client (waitForResponse), or by the server's
\* Run (WatchSessions).
Owners == Sessions \cup Clients \cup {SessionsWatch}

(***************************************************************************)
(* File names.  A name is the sequence of its parts between '-' signs, as  *)
(* strings.Split(fn, "-") yields them.  A part is a decimal numeral or     *)
(* other text.                                                             *)
(***************************************************************************)
NumPart(n) == [n |-> n, num |-> TRUE, t |-> <<ToString(n)>>]

TxtPart(t) == [n |-> 0, num |-> FALSE, t |-> <<t>>]

\* strconv.Atoi of one part.
Atoi(part) == IF part.num THEN [id |-> part.n, err |-> FALSE] ELSE [err |-> TRUE]

\* fmt.Sprintf("%d-req.yaml", reqId) and fmt.Sprintf("%d-res.yaml", reqId)
ReqFileName(n) == <<NumPart(n), TxtPart("req.yaml")>>

ResFileName(n) == <<NumPart(n), TxtPart("res.yaml")>>

parseRequestIdFromFilename(fn) ==
    IF Len(fn) < 2 \/ fn[2] # TxtPart("req.yaml")
    THEN [err |-> TRUE]
    ELSE Atoi(fn[1])

parseResponseIdFromFilename(fn) ==
    IF Len(fn) < 2 \/ fn[2] # TxtPart("res.yaml")
    THEN [err |-> TRUE]
    ELSE Atoi(fn[1])

(***************************************************************************)
(* Listing a session and keeping the requests that have no response.       *)
(***************************************************************************)
RECURSIVE AscSeq(_)
AscSeq(S) ==
    IF S = {} THEN <<>>
    ELSE LET m == CHOOSE x \in S : \A y \in S : x <= y
         IN <<m>> \o AscSeq(S \ {m})

RECURSIVE Reverse(_)
Reverse(q) == IF q = <<>> THEN <<>> ELSE Reverse(Tail(q)) \o <<Head(q)>>

RECURSIVE NamesOf(_, _, _)
NamesOf(ids, rq, rs) ==
    IF ids = <<>> THEN <<>>
    ELSE (IF rq[Head(ids)].present THEN <<ReqFileName(Head(ids))>> ELSE <<>>)
         \o (IF rs[Head(ids)].present THEN <<ResFileName(Head(ids))>> ELSE <<>>)
         \o NamesOf(Tail(ids), rq, rs)

\* The orders in which a listing may return the names of a session: by name
\* (os.ReadDir and ListObjectsV2 sort), and the reverse, which puts every
\* response before its request.
ListingOrders == {"name", "reverse"}

Listing(s, order) ==
    LET byName == NamesOf(AscSeq(FileIds), reqs[s], ress[s])
    IN IF order = "name" THEN byName ELSE Reverse(byName)

\* The scan without the look-up of the responses seen so far when a request
\* name is read.
ScanEntryNoLookup(st, name) ==
    LET rq == parseRequestIdFromFilename(name)
        rs == parseResponseIdFromFilename(name)
    IN IF ~rq.err
       THEN [st EXCEPT !.allRequests = @ \cup {rq.id}]
       ELSE IF ~rs.err
            THEN [allRequests |-> st.allRequests \ {rs.id},
                  allResponses |-> st.allResponses \cup {rs.id}]
            ELSE st

ScanEntry(st, name) ==
    LET rq == parseRequestIdFromFilename(name)
        rs == parseResponseIdFromFilename(name)
    IN IF ~rq.err
       THEN IF rq.id \in st.allResponses
            THEN st
            ELSE [st EXCEPT !.allRequests = @ \cup {rq.id}]
       ELSE IF ~rs.err
            THEN [allRequests |-> st.allRequests \ {rs.id},
                  allResponses |-> st.allResponses \cup {rs.id}]
            ELSE st

RECURSIVE ScanFrom(_, _)
ScanFrom(st, listing) ==
    IF listing = <<>> THEN st
    ELSE ScanFrom(ScanEntry(st, Head(listing)), Tail(listing))

UnansweredRequests(listing) ==
    ScanFrom([allRequests |-> {}, allResponses |-> {}], listing).allRequests

(***************************************************************************)
(* The store: session markers, request and response messages.              *)
(***************************************************************************)
\* os.WriteFile / PutObject of <n>-req.yaml
PutRequest(s, n, data) == reqs' = [reqs EXCEPT ![s][n] = File(data)]

\* PutObject of <n>-res.yaml
PutResponse(s, msg) ==
    /\ ress' = [ress EXCEPT ![s][msg.ID] = File(msg.Data)]
    /\ resWrites' = [resWrites EXCEPT ![s][msg.ID] = @ + 1]

\* Transport.SendResponse fails: the filesystem backend always, the object
\* store when the context passed to PutObject is done.
SendResponseFails(ctxDone) == backend = "fs" \/ ctxDone

(***************************************************************************)
(* The server: SessionHandler.Run and SessionHandler.handleRequest.        *)
(***************************************************************************)
\* The checks of the older handleRequest (pkg/server/server.go): the type
\* and the command only.
VerdictTypeAndCmd(req) ==
    IF req.type # CallTypeUnary THEN "unsupported request type"
    ELSE IF req.cmd # "kubectl" THEN "unsupported command"
    ELSE "run"

\* The checks of handleRequest before exec.Command, in the code's order:
\* "run", or the error it logs.
Verdict(req) ==
    IF req.type # CallTypeUnary THEN "unsupported request type"
    ELSE IF req.cmd # "kubectl" THEN "unsupported command"
    ELSE IF Len(req.args) < 1 THEN "auth: invalid args"
    ELSE IF req.args[1] # "get" /\ req.args[1] # "describe"
         THEN "auth: command not allowed"
    ELSE IF req.cmd \notin binaries
         THEN "no binary configured for cmd: kubectl"
    ELSE "run"

\* The errMsg values handed to sendErrResponse.
RejectMsgs == {"unsupported command", "auth: invalid args",
               "auth: command not allowed",
               "no binary configured for cmd: kubectl"}

\* fmt.Sprintf("error: %s", errMsg)
ErrOutput(errMsg) ==
    CASE errMsg = "unsupported command" -> "error: unsupported command"
      [] errMsg = "auth: invalid args" -> "error: auth: invalid args"
      [] errMsg = "auth: command not allowed" -> "error: auth: command not allowed"
      [] OTHER -> "error: no binary configured for cmd: kubectl"

\* The response sendErrResponse builds.
ErrResponse(req, errMsg) == Response(req.id, 0, -1, ErrOutput(errMsg))

\* The message sendResponse hands to the transport.
ResponseMessage(res) ==
    [ID |-> res.requestID, SequenceID |-> res.sequenceID,
     Data |-> MarshalResponse(res)]

Task(req, st) == [req |-> req, st |-> st]

Refused(s, id, what) == [id |-> id, s |-> s, what |-> what]

\* The body of Run's loop for one received message: decode it and start
\* handleRequest, or log the decode error and go on.
DispatchAnyway(s, msg) ==
    LET d == UnmarshalRequest(msg.Data)
        zero == Request("", 0, "", "", <<>>)
    IN /\ tasks' = [tasks EXCEPT ![s] = @ (+) SetToBag(
                        {Task(IF d.err THEN zero ELSE d.req, "new")})]
       /\ refused' = IF d.err
                     THEN refused \cup
                              {Refused(s, msg.ID, "cannot unmarshal request")}
                     ELSE refused

Dispatch(s, msg) ==
    LET d == UnmarshalRequest(msg.Data)
    IN IF d.err
       THEN /\ refused' = refused \cup
                   {Refused(s, msg.ID, "cannot unmarshal request")}
            /\ tasks' = tasks
       ELSE /\ tasks' = [tasks EXCEPT ![s] = @ (+) SetToBag({Task(d.req, "new")})]
            /\ refused' = refused

\* The session sendResponse writes into: the handler's own, h.SessionID,
\* whatever session id the request carries.
HandlerSessionOfPayload(s, req) == req.sessionID

HandlerSession(s, req) == s

\* sendResponse: the transport call succeeds or fails.
Publish(s, res, ctxDone) ==
    IF SendResponseFails(ctxDone)
    THEN UNCHANGED <<ress, resWrites>>
    ELSE PutResponse(s, ResponseMessage(res))

\* The contexts a call may find done: the root's cancellation ends every
\* context derived from it, and a deadline may have passed.
CtxStates == IF rootCancelled THEN {TRUE} ELSE BOOLEAN

\* Run's loop takes the next message from the stream and starts
\* handleRequest for it in a goroutine of its own.
HandlerRecvInline(s) ==
    /\ ~crashed
    /\ backend = "s3"
    /\ hpc[s] = "loop"
    /\ outBuf[s] # <<>>
    /\ tasks[s] = EmptyBag
    /\ outBuf' = [outBuf EXCEPT ![s] = Tail(@)]
    /\ Dispatch(s, Head(outBuf[s]))
    /\ UNCHANGED <<configVars, sessVars, sendVars, storeVars, rootCancelled, crashed, hpc, fwd,
                   outClosed, emitted, cl, fsVars,
                   children, timeouts>>

HandlerRecv(s) ==
    /\ ~crashed
    /\ backend = "s3"
    /\ hpc[s] = "loop"
    /\ outBuf[s] # <<>>
    /\ outBuf' = [outBuf EXCEPT ![s] = Tail(@)]
    /\ Dispatch(s, Head(outBuf[s]))
    /\ UNCHANGED <<configVars, sessVars, sendVars, storeVars, rootCancelled, crashed, hpc, fwd,
                   outClosed, emitted, cl, fsVars,
                   children, timeouts>>

HandlerCancel(s) ==
    /\ ~crashed
    /\ hpc[s] = "loop"
    /\ rootCancelled
    /\ hpc' = [hpc EXCEPT ![s] = "stopped"]
    /\ UNCHANGED <<configVars, sessVars, sendVars, storeVars, rootCancelled, crashed, fwd, outBuf,
                   outClosed, emitted, taskVars, cl, fsVars>>

HandlerClosed(s) ==
    /\ ~crashed
    /\ hpc[s] = "loop"
    /\ outClosed[s]
    /\ outBuf[s] = <<>>
    /\ hpc' = [hpc EXCEPT ![s] = "stopped"]
    /\ UNCHANGED <<configVars, sessVars, sendVars, storeVars, rootCancelled, crashed, fwd, outBuf,
                   outClosed, emitted, taskVars, cl, fsVars>>

(***************************************************************************)
(* The timeout of a request.  A time.Duration is a signed integer that     *)
(* wraps around; the model keeps the wrap-around in a narrower word, with   *)
(* a millisecond of Millisecond units.                                      *)
(***************************************************************************)
DurationBits == 16

Millisecond == 1000

\* The value a Duration holds after an arithmetic result x.
Wrap(x) == ((x + 2^(DurationBits - 1)) % 2^DurationBits) - 2^(DurationBits - 1)

\* Duration.Milliseconds: the division truncates towards zero.
Milliseconds(d) == IF d >= 0 THEN d \div Millisecond ELSE -((-d) \div Millisecond)

\* handleRequest: the timeout of the context the request is handled under,
\* from Request.Context.Timeout in milliseconds and config.Timeouts[req.Type].
EffectiveTimeout(reqMs, defaultTimeout) ==
    LET requestTimeout == Wrap(reqMs * Millisecond)
    IN IF requestTimeout = 0
          \/ Milliseconds(requestTimeout) > Milliseconds(defaultTimeout)
       THEN defaultTimeout
       ELSE requestTimeout

\* The values of Request.Context.Timeout (0: none supplied) and of
\* config.Timeouts[req.Type] (0: the type is not configured).
RequestTimeouts == {0, 1, 5, 30, 33, 40, 66}

ConfiguredTimeouts == {0, 500, 5000, 5500, 30000}

\* handleRequest computes the timeout of a request.
HandleTimeout(reqMs, defaultTimeout) ==
    /\ timeouts' = timeouts \cup
           {[reqMs |-> reqMs, defaultTimeout |-> defaultTimeout,
             effective |-> EffectiveTimeout(reqMs, defaultTimeout)]}
    /\ UNCHANGED <<configVars, sessVars, sendVars, storeVars, rootCancelled,
                   crashed, handlerVars, outClosed, tasks, refused, children,
                   cl, fsVars>>

\* The handleRequest calls of session s.
TasksOf(s) == BagToSet(tasks[s])

\* handleRequest, a request that is not unary: logged, nothing published.
TaskDropType(s) ==
    /\ ~crashed
    /\ \E t \in TasksOf(s) :
           /\ t.st = "new"
           /\ Verdict(t.req) = "unsupported request type"
           /\ tasks' = [tasks EXCEPT ![s] = @ (-) SetToBag({t})]
           /\ refused' = refused \cup
                  {Refused(s, t.req.id, "unsupported request type")}
    /\ UNCHANGED <<configVars, sessVars, sendVars, storeVars, rootCancelled, crashed, handlerVars,
                   outClosed, cl, fsVars,
                   children, timeouts>>

\* handleRequest, a request rejected by policy: sendErrResponse.
TaskReject(s) ==
    /\ ~crashed
    /\ \E t \in TasksOf(s) :
           /\ t.st = "new"
           /\ Verdict(t.req) \in RejectMsgs
           /\ tasks' = [tasks EXCEPT ![s] = @ (-) SetToBag({t})]
           /\ refused' = refused \cup {Refused(s, t.req.id, Verdict(t.req))}
           /\ \E ctxDone \in CtxStates :
                  Publish(HandlerSession(s, t.req),
                          ErrResponse(t.req, Verdict(t.req)), ctxDone)
    /\ UNCHANGED <<configVars, sessVars, sendVars, marker, reqs, rootCancelled, crashed,
                   handlerVars, outClosed, cl, fsVars,
                   children, timeouts>>

\* handleRequest, an authorised request: exec.Command and cmd.Run.
TaskExec(s) ==
    /\ ~crashed
    /\ \E t \in TasksOf(s) :
           /\ t.st = "new"
           /\ Verdict(t.req) = "run"
           /\ tasks' = [tasks EXCEPT ![s] = (@ (-) SetToBag({t}))
                                             (+) SetToBag({Task(t.req, "run")})]
           /\ children' = [children EXCEPT ![s] = @ (+) SetToBag({t.req})]
    /\ UNCHANGED <<configVars, sessVars, sendVars, storeVars, rootCancelled, crashed, handlerVars,
                   outClosed, refused, cl, fsVars, timeouts>>

\* The child exits before the context is done: the response carries its
\* exit code and its output.
TaskExit(s) ==
    /\ ~crashed
    /\ \E t \in TasksOf(s) :
           /\ t.st = "run"
           /\ tasks' = [tasks EXCEPT ![s] = @ (-) SetToBag({t})]
           /\ children' = [children EXCEPT ![s] = @ (-) SetToBag({t.req})]
           /\ \E code \in ExitCodes, output \in Outputs, ctxDone \in CtxStates :
                  Publish(HandlerSession(s, t.req),
                          Response(t.req.id, 0, code, output), ctxDone)
    /\ UNCHANGED <<configVars, sessVars, sendVars, marker, reqs, rootCancelled, crashed,
                   handlerVars, outClosed, refused, cl, fsVars, timeouts>>

\* cmd.Run fails without an exit status, the child is not running:
\* processDone is closed, ps is nil.
TaskFailedBadly(s) ==
    /\ ~crashed
    /\ \E t \in TasksOf(s) :
           /\ t.st = "run"
           /\ tasks' = [tasks EXCEPT ![s] = @ (-) SetToBag({t})]
           /\ children' = [children EXCEPT ![s] = @ (-) SetToBag({t.req})]
    /\ UNCHANGED <<configVars, sessVars, sendVars, storeVars, rootCancelled, crashed, handlerVars,
                   outClosed, refused, cl, fsVars, timeouts>>

\* The request's context is done first: logged, nothing published.  The
\* command was built by exec.Command, without the context: the child is left
\* running.
TaskTimeout(s) ==
    /\ ~crashed
    /\ \E t \in TasksOf(s) :
           /\ t.st = "run"
           /\ tasks' = [tasks EXCEPT ![s] = @ (-) SetToBag({t})]
    /\ UNCHANGED <<configVars, sessVars, sendVars, storeVars, rootCancelled, crashed, handlerVars,
                   outClosed, refused, cl, fsVars,
                   children, timeouts>>

\* SIGINT or SIGTERM: server-run cancels the root context.
RootCancel ==
    /\ ~crashed
    /\ ~rootCancelled
    /\ rootCancelled' = TRUE
    /\ UNCHANGED <<configVars, sessVars, sendVars, storeVars, crashed, handlerVars, outClosed,
                   taskVars, cl, fsVars>>

(***************************************************************************)
(* The object store transport.                                             *)
(***************************************************************************)
Forwarder(pc, pending, ticks) == [pc |-> pc, pending |-> pending, ticks |-> ticks]

\* The orders in which a set of ids may be visited: Go iterates a map in an
\* unspecified order.
RECURSIVE Orders(_)
Orders(S) ==
    IF S = {} THEN {<<>>}
    ELSE UNION {{<<x>> \o q : q \in Orders(S \ {x})} : x \in S}

\* pushRequest of S3 WatchRequests for each id of a sequence: GetObject, then
\* out <- &m.
RECURSIVE S3PushAll(_, _)
S3PushAll(s, ids) ==
    IF ids = <<>> THEN <<>>
    ELSE <<Message(Head(ids), reqs[s][Head(ids)].data)>> \o S3PushAll(s, Tail(ids))

RECURSIVE CountAll(_, _)
CountAll(f, ids) ==
    IF ids = <<>> THEN f
    ELSE CountAll([f EXCEPT ![Head(ids)] = @ + 1], Tail(ids))

\* forwardAllUnansweredRequests: list the session, push every request that
\* has no response.
forwardAllUnansweredRequests(s) ==
    \E order \in ListingOrders :
        \E ids \in Orders(UnansweredRequests(Listing(s, order))) :
            /\ Len(outBuf[s]) + Len(ids) <= ChanCap
            /\ outBuf' = [outBuf EXCEPT ![s] = @ \o S3PushAll(s, ids)]
            /\ emitted' = [emitted EXCEPT ![s] = CountAll(@, ids)]

\* addSessionHandlerIfNew starts Run, which calls WatchRequests: the initial
\* forwardAllUnansweredRequests, then the polling goroutine starts and Run
\* enters its loop.
S3WatchRequests(s) ==
    /\ ~crashed
    /\ backend = "s3"
    /\ ~rootCancelled
    /\ s \in marker
    /\ hpc[s] = "off"
    /\ hpc' = [hpc EXCEPT ![s] = "loop"]
    /\ forwardAllUnansweredRequests(s)
    /\ fwd' = [fwd EXCEPT ![s] = Forwarder("wait", {}, 0)]
    /\ UNCHANGED <<configVars, sessVars, sendVars, storeVars, rootCancelled, crashed,
                   outClosed, taskVars, cl, fsVars>>

\* The ticker of the polling goroutine fires: forwardAllUnansweredRequests
\* again.
S3PollTick(s) ==
    /\ ~crashed
    /\ backend = "s3"
    /\ ~rootCancelled
    /\ fwd[s].pc = "wait"
    /\ fwd[s].ticks < MaxPolls
    /\ forwardAllUnansweredRequests(s)
    /\ fwd' = [fwd EXCEPT ![s].ticks = @ + 1]
    /\ UNCHANGED <<configVars, sessVars, sendVars, storeVars, rootCancelled, crashed, hpc,
                   outClosed, taskVars, cl, fsVars>>

\* The polling goroutine sees its context done and closes the stream.
S3PollDone(s) ==
    /\ ~crashed
    /\ backend = "s3"
    /\ rootCancelled
    /\ fwd[s].pc = "wait"
    /\ fwd' = [fwd EXCEPT ![s] = Forwarder("done", {}, @.ticks)]
    /\ outClosed' = [outClosed EXCEPT ![s] = TRUE]
    /\ UNCHANGED <<configVars, sessVars, sendVars, storeVars, rootCancelled, crashed, hpc, outBuf,
                   emitted, taskVars, cl, fsVars>>

(***************************************************************************)
(* A client's SendUnary call.                                              *)
(***************************************************************************)
Call(pc, s, id, cancelled, data, err) ==
    [id |-> id, data |-> data, err |-> err, s |-> s, pc |-> pc,
     cancelled |-> cancelled]

NoCall == Call("idle", "", 0, FALSE, Garbage, "")

\* The shapes of request a client sends.
ReqShapes ==
    {sh \in CallTypes \X Cmds \X ArgLists :
        \/ sh[1] = CallTypeUnary /\ sh[2] = "kubectl"
        \/ sh[3] = <<"get">>}

\* The shapes used on the filesystem backend: one the policy accepts, one it
\* rejects.
FSReqShapes ==
    {<<CallTypeUnary, "kubectl", <<"get">>>>, <<CallTypeUnary, "kubectl", <<"delete">>>>}

\* The payloads a client may send as message n of session s: a request of
\* one of the shapes, carrying the message's id.
Payloads(s, n, shapes) ==
    {MarshalRequest(Request(s, n, sh[1], sh[2], sh[3])) : sh \in shapes}

\* The payloads that are no such request: one that leaves Request.ID unset,
\* and bytes that do not decode.
OddPayloads(s) ==
    {MarshalRequest(Request(s, 0, CallTypeUnary, "kubectl", <<"get">>)), Garbage}

\* S3Transport.SendUnary: PutObject of the request, then waitForResponse.
S3SendUnary(c, s, n, data) ==
    /\ backend = "s3"
    /\ cl[c].pc = "idle"
    /\ PutRequest(s, n, data)
    /\ cl' = [cl EXCEPT ![c] = Call("wait", s, n, FALSE, Garbage, "")]
    /\ UNCHANGED <<configVars, sessVars, sendVars, marker, ress, resWrites, rootCancelled, crashed,
                   handlerVars, outClosed, taskVars, fsVars>>

\* waitForResponse, the ticker fires and doRead finds the response object.
\* (While the object is absent doRead returns nil and the loop goes on.)
S3WaitTick(c) ==
    /\ backend = "s3"
    /\ cl[c].pc = "wait"
    /\ ~cl[c].cancelled
    /\ ress[cl[c].s][cl[c].id].present
    /\ cl' = [cl EXCEPT ![c] =
                 Call("ok", @.s, @.id, @.cancelled, ress[@.s][@.id].data, "")]
    /\ UNCHANGED <<configVars, sessVars, sendVars, storeVars, rootCancelled, crashed, handlerVars,
                   outClosed, taskVars, fsVars>>

\* waitForResponse, the caller's context is done: the select takes ctx.Done,
\* or the ticker and doRead's GetObject fails on the context.
S3WaitTimeout(c) ==
    /\ backend = "s3"
    /\ cl[c].pc = "wait"
    /\ cl[c].cancelled
    /\ \E e \in {"timeout waiting for response", "error reading response object"} :
           cl' = [cl EXCEPT ![c] = Call("err", @.s, @.id, @.cancelled, Garbage, e)]
    /\ UNCHANGED <<configVars, sessVars, sendVars, storeVars, rootCancelled, crashed, handlerVars,
                   outClosed, taskVars, fsVars>>

\* The deadline of the caller's context passes.
ClientDeadline(c) ==
    /\ cl[c].pc \in {"wrote", "wait"}
    /\ ~cl[c].cancelled
    /\ cl' = [cl EXCEPT ![c].cancelled = TRUE]
    /\ UNCHANGED <<configVars, sessVars, sendVars, storeVars, rootCancelled, crashed, handlerVars,
                   outClosed, taskVars, fsVars>>

(***************************************************************************)
(* The filesystem transport: paths, the shared watcher, its subscribers.   *)
(***************************************************************************)
\* Every process has an FSTransport of its own, with its watcher and its
\* subscriber table: the server, and each client.
Procs == {"server"} \cup Clients

ProcOf(o) == IF o \in Clients THEN o ELSE "server"

\* path.Join of a directory and a name: the last part of the directory, a
\* slash and the first part of the name become one part.
JoinPath(dir, name) ==
    SubSeq(dir, 1, Len(dir) - 1)
    \o <<[n |-> 0, num |-> FALSE, t |-> dir[Len(dir)].t \o <<"/">> \o name[1].t]>>
    \o Tail(name)

\* The name of a session: a session id is <timestamp>-<name>.
SessionName(s) == <<TxtPart("2024_05_17_21_55"), TxtPart(s)>>

sessionsPath == <<TxtPart("sessions")>>

sessionPath(s) == JoinPath(sessionsPath, SessionName(s))

requestPath(s, n) == JoinPath(sessionPath(s), ReqFileName(n))

responsePath(s, n) == JoinPath(sessionPath(s), ResFileName(n))

Event(op, name) == [name |-> name, op |-> op]

NoEvent == Event("", <<>>)

Subscriber(reg, closed, g, ev) == [reg |-> reg, closed |-> closed, g |-> g, ev |-> ev]

NoSubscriber == Subscriber(FALSE, FALSE, "none", NoEvent)

\* The processes whose watcher is running: the server's since Run called
\* WatchSessions, a client's while its waitForResponse is subscribed.
Watching == {"server"} \cup {c \in Clients : cl[c].pc = "wait"}

\* The watchers that report a change: a change directly under sessions/ is
\* reported to every watcher; whether a change inside a session directory is
\* reported depends on the platform's watcher.
Notify(ev, reported) ==
    events' = [p \in Procs |->
                  IF p \in Watching /\ reported THEN Append(events[p], ev)
                  ELSE events[p]]

\* The context of the goroutine of subscription o is done.
SubCtxDone(o) == IF o \in Clients THEN cl[o].cancelled ELSE rootCancelled

\* addSubscriber: a new entry in the table and a goroutine that has not
\* reached its select yet.
addSubscriber(o) == subs' = [subs EXCEPT ![o] = Subscriber(TRUE, FALSE, "spawned", NoEvent)]

\* removeSubscribers(removals...): close and delete those still in the table.
removeSubscribersNoClose(table, removals) ==
    [o \in Owners |->
        IF o \in removals /\ table[o].reg
        THEN [table[o] EXCEPT !.reg = FALSE]
        ELSE table[o]]

removeSubscribers(table, removals) ==
    [o \in Owners |->
        IF o \in removals /\ table[o].reg
        THEN [table[o] EXCEPT !.reg = FALSE, !.closed = TRUE]
        ELSE table[o]]

\* The callback of WatchRequests: the request id in a Create event's name.
WatchRequestsMatch(ev) ==
    IF ev.op # "CREATE" THEN [err |-> TRUE]
    ELSE parseRequestIdFromFilename(ev.name)

\* The callback of waitForResponse.
WaitForResponseMatch(ev, resPath) ==
    (ev.op = "WRITE" \/ ev.op = "CREATE") /\ ev.name = resPath

\* waitForResponse that returns what it has when out yields, without looking
\* at the error of os.ReadFile.
FSReadResponseUnchecked(c) ==
    Call("ok", cl[c].s, cl[c].id, cl[c].cancelled,
         IF ress[cl[c].s][cl[c].id].present THEN ress[cl[c].s][cl[c].id].data
         ELSE Garbage, "")

\* os.ReadFile(resPath) at the end of waitForResponse.
FSReadResponse(c) ==
    IF ress[cl[c].s][cl[c].id].present
    THEN Call("ok", cl[c].s, cl[c].id, cl[c].cancelled, ress[cl[c].s][cl[c].id].data, "")
    ELSE Call("err", cl[c].s, cl[c].id, cl[c].cancelled, Garbage, "no such file")

\* The goroutine of a subscriber reaches its select.
FSSubPark(o) ==
    /\ backend = "fs"
    /\ o \notin Clients => ~crashed
    /\ o \in Clients => cl[o].pc = "wait"
    /\ subs[o].g = "spawned"
    /\ subs' = [subs EXCEPT ![o].g = "select"]
    /\ UNCHANGED <<configVars, sessVars, sendVars, storeVars, rootCancelled, crashed, handlerVars,
                   outClosed, taskVars, cl, events>>

\* The goroutine finds its event channel closed by removeSubscribers and
\* returns; done is not called.
FSSubDropped(o) ==
    /\ backend = "fs"
    /\ o \notin Clients => ~crashed
    /\ o \in Clients => cl[o].pc = "wait"
    /\ subs[o].g = "select"
    /\ subs[o].closed
    /\ subs' = [subs EXCEPT ![o].g = "exited"]
    /\ UNCHANGED <<configVars, sessVars, sendVars, storeVars, rootCancelled, crashed, handlerVars,
                   outClosed, taskVars, cl, events>>

\* The goroutine takes ctx.Done: removeSubscribers(k), then done().
FSSubCtxDone(o) ==
    /\ backend = "fs"
    /\ o \notin Clients => ~crashed
    /\ o \in Clients => cl[o].pc = "wait"
    /\ subs[o].g = "select"
    /\ SubCtxDone(o)
    /\ subs' = [removeSubscribers(subs, {o}) EXCEPT ![o].g = "exited"]
    /\ outClosed' = [outClosed EXCEPT ![o] = TRUE]
    /\ UNCHANGED <<configVars, sessVars, sendVars, storeVars, rootCancelled, crashed, handlerVars,
                   taskVars, cl, events>>

\* The goroutine of WatchRequests got an event: the callback, then done()
\* closes the stream.  A matching event makes the callback push the request,
\* which needs Run to be receiving.
FSRequestsCallback(s) ==
    /\ backend = "fs"
    /\ ~crashed
    /\ subs[s].g = "event"
    /\ LET m == WatchRequestsMatch(subs[s].ev)
       IN IF ~m.err /\ reqs[s][m.id].present
          THEN /\ hpc[s] = "loop"
               /\ Dispatch(s, Message(m.id, reqs[s][m.id].data))
               /\ emitted' = [emitted EXCEPT ![s][m.id] = @ + 1]
          ELSE UNCHANGED <<tasks, refused, emitted>>
    /\ subs' = [subs EXCEPT ![s].g = "exited", ![s].ev = NoEvent]
    /\ outClosed' = [outClosed EXCEPT ![s] = TRUE]
    /\ UNCHANGED <<configVars, sessVars, sendVars, storeVars, rootCancelled, crashed, hpc, fwd,
                   outBuf, cl, events,
                   children, timeouts>>

\* The goroutine of waitForResponse got an event: a matching one is signalled
\* to the waiting call, which reads the response file; then done() closes out.
FSResponseCallback(c) ==
    /\ backend = "fs"
    /\ cl[c].pc = "wait"
    /\ subs[c].g = "event"
    /\ cl' = IF WaitForResponseMatch(subs[c].ev, responsePath(cl[c].s, cl[c].id))
             THEN [cl EXCEPT ![c] = FSReadResponse(c)]
             ELSE cl
    /\ subs' = [subs EXCEPT ![c].g = "exited", ![c].ev = NoEvent]
    /\ outClosed' = [outClosed EXCEPT ![c] = TRUE]
    /\ UNCHANGED <<configVars, sessVars, sendVars, storeVars, rootCancelled, crashed, handlerVars,
                   taskVars, events>>

\* The watcher's loop takes an event: pushToSubscribers hands it to every
\* subscriber whose goroutine is waiting in its select, and removes the
\* others.
FSPushToSubscribers(p) ==
    /\ backend = "fs"
    /\ p = "server" => ~crashed
    /\ p \in Clients => cl[p].pc = "wait"
    /\ events[p] # <<>>
    /\ LET mine == {o \in Owners : ProcOf(o) = p /\ subs[o].reg}
           ready == {o \in mine : subs[o].g = "select"}
           sent == [o \in Owners |->
                       IF o \in ready
                       THEN [subs[o] EXCEPT !.g = "event", !.ev = Head(events[p])]
                       ELSE subs[o]]
       IN subs' = removeSubscribers(sent, mine \ ready)
    /\ events' = [events EXCEPT ![p] = Tail(@)]
    /\ UNCHANGED <<configVars, sessVars, sendVars, storeVars, rootCancelled, crashed, handlerVars,
                   outClosed, taskVars, cl>>

\* Run calls FSTransport.WatchRequests: addSubscriber.
FSWatchSubscribe(s) ==
    /\ backend = "fs"
    /\ ~crashed
    /\ ~rootCancelled
    /\ s \in marker
    /\ hpc[s] = "off"
    /\ hpc' = [hpc EXCEPT ![s] = "watch"]
    /\ addSubscriber(s)
    /\ UNCHANGED <<configVars, sessVars, sendVars, storeVars, rootCancelled, crashed, fwd, outBuf,
                   outClosed, emitted, taskVars, cl, events>>

\* WatchRequests reads the session directory, starts the goroutine that
\* pushes the initial list and returns the stream; Run enters its loop.
FSWatchScan(s) ==
    /\ backend = "fs"
    /\ ~crashed
    /\ hpc[s] = "watch"
    /\ hpc' = [hpc EXCEPT ![s] = "loop"]
    /\ \E order \in ListingOrders :
           fwd' = [fwd EXCEPT ![s] =
                      Forwarder("init", UnansweredRequests(Listing(s, order)), 0)]
    /\ UNCHANGED <<configVars, sessVars, sendVars, storeVars, rootCancelled, crashed, outBuf,
                   outClosed, emitted, taskVars, cl, fsVars>>

\* The goroutine of the initial list: pushRequest reads the file and sends
\* the message on the unbuffered stream, to Run waiting in its select.
FSInitPush(s) ==
    /\ backend = "fs"
    /\ ~crashed
    /\ fwd[s].pc = "init"
    /\ fwd[s].pending # {}
    /\ ~outClosed[s]
    /\ hpc[s] = "loop"
    /\ \E n \in fwd[s].pending :
           /\ Dispatch(s, Message(n, reqs[s][n].data))
           /\ emitted' = [emitted EXCEPT ![s][n] = @ + 1]
           /\ fwd' = [fwd EXCEPT ![s].pending = @ \ {n}]
    /\ UNCHANGED <<configVars, sessVars, sendVars, storeVars, rootCancelled, crashed, hpc, outBuf,
                   outClosed, cl, fsVars,
                   children, timeouts>>

\* The stream was closed by done() while the goroutine of the initial list
\* still has a message to send: a send on a closed channel panics.
FSInitPanic(s) ==
    /\ backend = "fs"
    /\ ~crashed
    /\ fwd[s].pc = "init"
    /\ fwd[s].pending # {}
    /\ outClosed[s]
    /\ crashed' = TRUE
    /\ UNCHANGED <<configVars, sessVars, sendVars, storeVars, rootCancelled, handlerVars, outClosed,
                   taskVars, cl, fsVars>>

\* FSTransport.SendUnary: HasSession, then os.WriteFile of the request.
FSSendUnary(c, s, n, data) ==
    /\ backend = "fs"
    /\ cl[c].pc = "idle"
    /\ IF s \in marker
       THEN /\ PutRequest(s, n, data)
            /\ cl' = [cl EXCEPT ![c] = Call("wrote", s, n, FALSE, Garbage, "")]
            /\ \E reported \in BOOLEAN :
                   Notify(Event(IF reqs[s][n].present THEN "WRITE" ELSE "CREATE",
                                requestPath(s, n)), reported)
       ELSE /\ cl' = [cl EXCEPT ![c] =
                         Call("err", s, n, FALSE, Garbage, "session does not exist")]
            /\ UNCHANGED <<reqs, events>>
    /\ UNCHANGED <<configVars, sessVars, sendVars, marker, ress, resWrites, rootCancelled, crashed,
                   handlerVars, outClosed, taskVars, subs>>

\* waitForResponse: addSubscriber, then the call waits on out.
FSWaitSubscribe(c) ==
    /\ backend = "fs"
    /\ cl[c].pc = "wrote"
    /\ cl' = [cl EXCEPT ![c].pc = "wait"]
    /\ addSubscriber(c)
    /\ UNCHANGED <<configVars, sessVars, sendVars, storeVars, rootCancelled, crashed, handlerVars,
                   outClosed, taskVars, events>>

\* waitForResponse: out was closed, the receive returns and the response file
\* is read.
FSWaitReturn(c) ==
    /\ backend = "fs"
    /\ cl[c].pc = "wait"
    /\ outClosed[c]
    /\ cl' = [cl EXCEPT ![c] = FSReadResponse(c)]
    /\ UNCHANGED <<configVars, sessVars, sendVars, storeVars, rootCancelled, crashed, handlerVars,
                   outClosed, taskVars, fsVars>>

(***************************************************************************)
(* Sessions.                                                               *)
(***************************************************************************)
\* Transport.CreateSession of a session that has no marker yet: the
\* directory, or the marker object, is created.
CreateSession(s) ==
    /\ s \notin marker
    /\ marker' = marker \cup {s}
    /\ IF backend = "fs"
       THEN Notify(Event("CREATE", sessionPath(s)), TRUE)
       ELSE UNCHANGED events
    /\ UNCHANGED <<configVars, sessVars, sendVars, reqs, ress, resWrites, rootCancelled, crashed,
                   handlerVars, outClosed, taskVars, cl, subs>>

(***************************************************************************)
(* Calls on sessions, the stream of sessions, and the calls of a client.   *)
(***************************************************************************)
\* A CreateSession call: where it is, the session id, the error it returned.
CreateCall(pc, s, err) == [err |-> err, s |-> s, pc |-> pc]

NoCreate == CreateCall("idle", "", "")

\* A WatchSessions subscription: where it is, the ids in existingSessions,
\* the entries of the initial listing not sent yet, the polls done.
SessionWatcher(pc, existing, pending, ticks) ==
    [pc |-> pc, pending |-> pending, ticks |-> ticks, existing |-> existing]

NoWatcher == SessionWatcher("off", {}, {}, 0)

\* A GetLastRequestID call: the names the listing returned, and once it is
\* done the id and the error it returned.
LastCall(names, done, id, err) ==
    [id |-> id, err |-> err, names |-> names, done |-> done]

NoLast == LastCall(<<>>, FALSE, 0, "")

\* FSTransport.CreateSession, first step: os.Stat of the session directory.
\* A directory that is there ends the call with an error.
FSCreateStat(c, s) ==
    /\ backend = "fs"
    /\ mk[c].pc = "idle"
    /\ mk' = [mk EXCEPT ![c] =
                 IF s \in marker
                 THEN CreateCall("err", s, "session already exists")
                 ELSE CreateCall("stat", s, "")]
    /\ UNCHANGED <<configVars, sendVars, storeVars, rootCancelled, crashed,
                   handlerVars, outClosed, taskVars, cl, fsVars, creates, ws,
                   sessEmitted, disp>>

\* FSTransport.CreateSession, second step: os.MkdirAll, which creates the
\* directory, and returns nil as well when the directory is there by now.
FSCreateMkdir(c) ==
    /\ backend = "fs"
    /\ mk[c].pc = "stat"
    /\ marker' = marker \cup {mk[c].s}
    /\ IF mk[c].s \in marker
       THEN UNCHANGED events
       ELSE Notify(Event("CREATE", sessionPath(mk[c].s)), TRUE)
    /\ mk' = [mk EXCEPT ![c].pc = "ok"]
    /\ creates' = [creates EXCEPT ![mk[c].s] = @ + 1]
    /\ UNCHANGED <<configVars, sendVars, reqs, ress, resWrites, rootCancelled,
                   crashed, handlerVars, outClosed, taskVars, cl, subs, ws,
                   sessEmitted, disp>>

\* S3Transport.CreateSession: PutObject of the marker object.
S3CreateSession(c, s) ==
    /\ backend = "s3"
    /\ mk[c].pc = "idle"
    /\ marker' = marker \cup {s}
    /\ mk' = [mk EXCEPT ![c] = CreateCall("ok", s, "")]
    /\ creates' = [creates EXCEPT ![s] = @ + 1]
    /\ UNCHANGED <<configVars, sendVars, reqs, ress, resWrites, rootCancelled,
                   crashed, handlerVars, outClosed, taskVars, cl, fsVars, ws,
                   sessEmitted, disp>>

\* Transport.HasSession: the directory, or the marker object, is there.
HasSession(s) == s \in marker

\* A path as the string it is: its parts with the '-' signs between them.
RECURSIVE Flat(_)
Flat(name) ==
    IF name = <<>> THEN <<>>
    ELSE IF Len(name) = 1 THEN name[1].t
    ELSE name[1].t \o <<"-">> \o Flat(Tail(name))

\* strings.LastIndex(p, "/") + 1: the position of the last slash, 0 if none.
LastSlash(p) ==
    LET at == {i \in 1..Len(p) : p[i] = "/"}
    IN IF at = {} THEN 0 ELSE CHOOSE i \in at : \A j \in at : j <= i

\* path.Split: the directory up to and with the last slash, and the file.
SplitPath(name) ==
    LET p == Flat(name)
    IN [dir |-> SubSeq(p, 1, LastSlash(p)),
        file |-> SubSeq(p, LastSlash(p) + 1, Len(p))]

\* The callback of WatchSessions: the sessions a Create event's name stands
\* for, those whose name lies in a directory that equals sessionsPath.
WatchSessionsMatch(ev) ==
    IF ev.op = "CREATE" /\ SplitPath(ev.name).dir = Flat(sessionsPath)
    THEN {s \in Sessions : Flat(SessionName(s)) = SplitPath(ev.name).file}
    ELSE {}

\* Run calls FSTransport.WatchSessions: addSubscriber, whose ensureWatcher
\* starts the server's watcher; what changed before is not reported.
FSWatchSessionsSubscribe ==
    /\ backend = "fs"
    /\ ~crashed
    /\ ws.pc = "off"
    /\ ws' = SessionWatcher("sub", {}, {}, 0)
    /\ subs' = [subs EXCEPT ![SessionsWatch] =
                   Subscriber(TRUE, FALSE, "spawned", NoEvent)]
    /\ events' = [events EXCEPT !["server"] = <<>>]
    /\ UNCHANGED <<configVars, sendVars, storeVars, rootCancelled, crashed,
                   handlerVars, outClosed, taskVars, cl, mk, creates,
                   sessEmitted, disp>>

\* FSTransport.WatchSessions: os.ReadDir of the sessions directory; the
\* directories found are handed to the goroutine that sends them.
FSWatchSessionsList ==
    /\ backend = "fs"
    /\ ~crashed
    /\ ws.pc = "sub"
    /\ ws' = SessionWatcher("run", {}, marker, 0)
    /\ UNCHANGED <<configVars, sendVars, storeVars, rootCancelled, crashed,
                   handlerVars, outClosed, taskVars, cl, fsVars, mk, creates,
                   sessEmitted, disp>>

(***************************************************************************)
(* GenieServer: the map of session handlers.  disp.sessions is the set of  *)
(* keys of g.sessions, disp.sessionsMutex is "free" or names the goroutine *)
(* that holds g.sessionsMutex (Run, or the handler of a session in its     *)
(* quitFn), disp.running[s] counts the goroutines SessionHandler.Run of s  *)
(* that were started and have not returned.                                *)
(***************************************************************************)
Dispatcher(sessions, running, sessionsMutex, returned) ==
    [sessions |-> sessions, running |-> running,
     sessionsMutex |-> sessionsMutex, returned |-> returned]

NoDispatcher == Dispatcher({}, [s \in Sessions |-> 0], "free", FALSE)

\* Run is in the select of its loop: it has not left the loop and is not
\* inside addSessionHandlerIfNew.
RunInSelect == ~disp.returned /\ disp.sessionsMutex # "run"

\* g.sessionsMutex.Lock() by goroutine g.
LockNotTaken(g) == "free"

Lock(g) == g

\* addSessionHandlerIfNew up to its deferred Unlock: under the mutex, a
\* session that has no handler in the map gets one, and its Run is started.
addSessionHandlerIfNew(s) ==
    /\ disp.sessionsMutex = "free"
    /\ disp' = IF s \in disp.sessions
               THEN [disp EXCEPT !.sessionsMutex = Lock("run")]
               ELSE [disp EXCEPT !.sessionsMutex = Lock("run"),
                                 !.sessions = @ \cup {s},
                                 !.running[s] = @ + 1]

\* The goroutine of the initial list sends one session; Run, in its select,
\* receives it and calls addSessionHandlerIfNew.
FSSessInitPush(s) ==
    /\ backend = "fs"
    /\ ~crashed
    /\ ~rootCancelled
    /\ ws.pc = "run"
    /\ s \in ws.pending
    /\ ~outClosed[SessionsWatch]
    /\ RunInSelect
    /\ ws' = [ws EXCEPT !.pending = @ \ {s}]
    /\ sessEmitted' = [sessEmitted EXCEPT ![s] = @ + 1]
    /\ addSessionHandlerIfNew(s)
    /\ UNCHANGED <<configVars, sendVars, storeVars, rootCancelled, crashed,
                   handlerVars, outClosed, taskVars, cl, fsVars, mk, creates>>

\* The goroutine of the initial list sends on the stream after done()
\* closed it: the send panics.
FSSessInitPanic ==
    /\ backend = "fs"
    /\ ~crashed
    /\ ws.pending # {}
    /\ outClosed[SessionsWatch]
    /\ crashed' = TRUE
    /\ UNCHANGED <<configVars, sendVars, storeVars, rootCancelled,
                   handlerVars, outClosed, taskVars, cl, fsVars, sessVars>>

\* The goroutine of WatchSessions got an event: the callback sends the
\* session of a matching event, which needs Run to be receiving and makes it
\* call addSessionHandlerIfNew; then done() closes the stream.
FSSessionsCallback ==
    /\ backend = "fs"
    /\ ~crashed
    /\ subs[SessionsWatch].g = "event"
    /\ LET new == WatchSessionsMatch(subs[SessionsWatch].ev)
       IN /\ new # {} => ~rootCancelled /\ ws.pc = "run"
          /\ sessEmitted' = [s \in Sessions |->
                                IF s \in new THEN sessEmitted[s] + 1
                                ELSE sessEmitted[s]]
          /\ IF new = {} THEN disp' = disp
             ELSE RunInSelect /\ \E s \in new : addSessionHandlerIfNew(s)
    /\ subs' = [subs EXCEPT ![SessionsWatch].g = "exited"]
    /\ outClosed' = [outClosed EXCEPT ![SessionsWatch] = TRUE]
    /\ UNCHANGED <<configVars, sendVars, storeVars, rootCancelled, crashed,
                   handlerVars, taskVars, cl, events, mk, creates, ws>>

\* Run's loop finds the stream of sessions closed, and empty if it is
\* buffered: it leaves the loop and cancels the root context.
RunWatcherClosed ==
    /\ ~crashed
    /\ ws.pc = "run"
    /\ outClosed[SessionsWatch]
    /\ RunInSelect
    /\ backend = "s3" => ws.pending = {}
    /\ ws' = [ws EXCEPT !.pc = "closed"]
    /\ rootCancelled' = TRUE
    /\ disp' = [disp EXCEPT !.returned = TRUE]
    /\ UNCHANGED <<configVars, sendVars, storeVars, crashed, handlerVars,
                   outClosed, taskVars, cl, fsVars, mk, creates, sessEmitted>>

\* readAllSessions drops the listed ids that are in existingSessions.
NewSessionsUnfiltered(listed, existing) == listed

NewSessions(listed, existing) == listed \ existing

\* readAllSessions of S3Transport.WatchSessions: every listed marker that is
\* new is sent into the buffered stream, whose content is ws.pending, and
\* added to existingSessions.
readAllSessions ==
    LET new == NewSessions(marker, ws.existing)
    IN /\ Cardinality(ws.pending \cup new) <= ChanCap
       /\ sessEmitted' = [s \in Sessions |->
                             IF s \in new THEN sessEmitted[s] + 1
                             ELSE sessEmitted[s]]
       /\ ws' = [ws EXCEPT !.pc = "run", !.existing = @ \cup new,
                           !.pending = @ \cup new,
                           !.ticks = IF ws.pc = "off" THEN 0 ELSE @ + 1]

\* Run calls S3Transport.WatchSessions: the initial readAllSessions, then
\* the polling goroutine is started.
S3WatchSessions ==
    /\ backend = "s3"
    /\ ~rootCancelled
    /\ ws.pc = "off"
    /\ readAllSessions
    /\ UNCHANGED <<configVars, sendVars, storeVars, rootCancelled, crashed,
                   handlerVars, outClosed, taskVars, cl, fsVars, mk, creates, disp>>

\* repeatUntilDone, the ticker fires: readAllSessions, whose listing fails
\* once the context is done.
S3SessPollTick ==
    /\ backend = "s3"
    /\ ~rootCancelled
    /\ ws.pc = "run"
    /\ ~outClosed[SessionsWatch]
    /\ ws.ticks < MaxPolls
    /\ readAllSessions
    /\ UNCHANGED <<configVars, sendVars, storeVars, rootCancelled, crashed,
                   handlerVars, outClosed, taskVars, cl, fsVars, mk, creates, disp>>

\* Run calls S3Transport.WatchSessions under a context that is done: the
\* listing fails, Run returns the error.
RunWatchFailed ==
    /\ backend = "s3"
    /\ rootCancelled
    /\ ws.pc = "off"
    /\ ws' = [ws EXCEPT !.pc = "closed"]
    /\ disp' = [disp EXCEPT !.returned = TRUE]
    /\ UNCHANGED <<configVars, sendVars, storeVars, rootCancelled, crashed,
                   handlerVars, outClosed, taskVars, cl, fsVars, mk, creates,
                   sessEmitted>>

\* repeatUntilDone, the context is done: the stream is closed.
S3SessPollDone ==
    /\ backend = "s3"
    /\ ws.pc = "run"
    /\ rootCancelled
    /\ ~outClosed[SessionsWatch]
    /\ outClosed' = [outClosed EXCEPT ![SessionsWatch] = TRUE]
    /\ UNCHANGED <<configVars, sendVars, storeVars, rootCancelled, crashed,
                   handlerVars, taskVars, cl, fsVars, sessVars>>

\* Run's select receives a session from the buffered stream of the object
\* store and calls addSessionHandlerIfNew.
RunNewSession(s) ==
    /\ backend = "s3"
    /\ ~crashed
    /\ ws.pc = "run"
    /\ RunInSelect
    /\ s \in ws.pending
    /\ ws' = [ws EXCEPT !.pending = @ \ {s}]
    /\ addSessionHandlerIfNew(s)
    /\ UNCHANGED <<configVars, sendVars, storeVars, rootCancelled, crashed,
                   handlerVars, outClosed, taskVars, cl, fsVars, mk, creates,
                   sessEmitted>>

\* The deferred Unlock of addSessionHandlerIfNew: Run is back in its select.
RunAddUnlock ==
    /\ ~crashed
    /\ disp.sessionsMutex = "run"
    /\ disp' = [disp EXCEPT !.sessionsMutex = "free"]
    /\ UNCHANGED <<configVars, sendVars, storeVars, rootCancelled, crashed,
                   handlerVars, outClosed, taskVars, cl, fsVars, mk, creates,
                   ws, sessEmitted>>

\* Run's select finds its context done: it leaves the loop and returns.
RunCtxDone ==
    /\ ~crashed
    /\ ws.pc = "run"
    /\ RunInSelect
    /\ rootCancelled
    /\ disp' = [disp EXCEPT !.returned = TRUE]
    /\ UNCHANGED <<configVars, sendVars, storeVars, rootCancelled, crashed,
                   handlerVars, outClosed, taskVars, cl, fsVars, mk, creates,
                   ws, sessEmitted>>

\* The handler the dispatcher started is running.
HandlerStarted(s) == disp.running[s] > 0

\* SessionHandler.Run, WatchRequests fails under a context that is done: Run
\* returns.
HandlerWatchFailed(s) ==
    /\ ~crashed
    /\ HandlerStarted(s)
    /\ hpc[s] = "off"
    /\ rootCancelled
    /\ hpc' = [hpc EXCEPT ![s] = "stopped"]
    /\ UNCHANGED <<configVars, sessVars, sendVars, storeVars, rootCancelled, crashed, fwd, outBuf,
                   outClosed, emitted, taskVars, cl, fsVars>>

\* removeSessionHandler up to its deferred Unlock, called by the deferred
\* quitFn of a SessionHandler.Run that returned.
removeSessionHandler(s) ==
    /\ ~crashed
    /\ HandlerStarted(s)
    /\ hpc[s] = "stopped"
    /\ disp.sessionsMutex = "free"
    /\ disp' = [disp EXCEPT !.sessionsMutex = Lock(s), !.sessions = @ \ {s}]
    /\ UNCHANGED <<configVars, sendVars, storeVars, rootCancelled, crashed,
                   handlerVars, outClosed, taskVars, cl, fsVars, mk, creates,
                   ws, sessEmitted>>

\* The deferred Unlock of removeSessionHandler; the goroutine of the handler
\* ends.
HandlerExit(s) ==
    /\ ~crashed
    /\ disp.sessionsMutex = s
    /\ disp' = [disp EXCEPT !.sessionsMutex = "free", !.running[s] = @ - 1]
    /\ UNCHANGED <<configVars, sendVars, storeVars, rootCancelled, crashed,
                   handlerVars, outClosed, taskVars, cl, fsVars, mk, creates,
                   ws, sessEmitted>>

(***************************************************************************)
(* The initial states: a server that is starting, over a store that holds  *)
(* session s1 with what an earlier run left in it.                         *)
(***************************************************************************)
\* The request an earlier kubectl call left, and the response to it.
LeftRequest(s, n) == MarshalRequest(Request(s, n, CallTypeUnary, "kubectl", <<"get">>))

LeftResponse(n) == MarshalResponse(Response(n, 0, 0, "NAME STATUS"))

\* A call of S3Transport.WatchSessions or WatchRequests: where it is, the
\* listed items it still has to send, and the items buffered in out.
WatchCall(kind, pc, todo, buf) == [kind |-> kind, pc |-> pc, todo |-> todo, buf |-> buf]

NoWatchCall == WatchCall("none", "off", 0, 0)

\* A server that starts on backend b with the binaries bins configured, over
\* session s1 holding requests 1..k of which those in answered have a
\* response.
InitWith(b, bins, k, answered) ==
    /\ backend = b
    /\ binaries = bins
    /\ marker = {"s1"}
    /\ reqs = [s \in Sessions |-> [n \in FileIds |->
                  IF s = "s1" /\ n \in 1..k THEN File(LeftRequest(s, n))
                  ELSE NoFile]]
    /\ ress = [s \in Sessions |-> [n \in FileIds |->
                  IF s = "s1" /\ n \in answered THEN File(LeftResponse(n))
                  ELSE NoFile]]
    /\ resWrites = [s \in Sessions |-> [n \in FileIds |-> 0]]
    /\ rootCancelled = FALSE
    /\ crashed = FALSE
    /\ hpc = [s \in Sessions |-> "off"]
    /\ fwd = [s \in Sessions |-> Forwarder("off", {}, 0)]
    /\ outBuf = [s \in Sessions |-> <<>>]
    /\ outClosed = [o \in Owners |-> FALSE]
    /\ emitted = [s \in Sessions |-> [n \in FileIds |-> 0]]
    /\ tasks = [s \in Sessions |-> EmptyBag]
    /\ refused = {}
    /\ children = [s \in Sessions |-> EmptyBag]
    /\ timeouts = {}
    /\ cl = [c \in Clients |-> NoCall]
    /\ subs = [o \in Owners |-> NoSubscriber]
    /\ events = [p \in Procs |-> <<>>]
    /\ mk = [c \in Clients |-> NoCreate]
    /\ creates = [s \in Sessions |-> 0]
    /\ ws = NoWatcher
    /\ sessEmitted = [s \in Sessions |-> 0]
    /\ disp = NoDispatcher
    /\ lastCall = NoLast
    /\ sentIds = [c \in Clients |-> <<>>]
    /\ codec = {}
    /\ initial = NoWatchCall

(***************************************************************************)
(* The next-state relations.  A server that serves session s1, one client  *)
(* that sends one request into it, and a second session that may be        *)
(* created meanwhile.                                                      *)
(***************************************************************************)
Served == {"s1"}

Senders == {"c1"}

\* handleRequest of a unary request whose command, if it is run, exits in
\* time.
NextRun ==
    \/ \E s \in Served : TaskReject(s)
    \/ \E s \in Served : TaskExec(s)
    \/ \E s \in Served : TaskExit(s)

\* handleRequest.
NextTasks ==
    \/ NextRun
    \/ \E s \in Served : TaskDropType(s)
    \/ \E s \in Served : TaskFailedBadly(s)
    \/ \E s \in Served : TaskTimeout(s)

\* The object store transport, with the handler and the client on it.
NextS3 ==
    \/ \E s \in Served : S3WatchRequests(s)
    \/ \E s \in Served : S3PollTick(s)
    \/ \E s \in Served : HandlerRecv(s)
    \/ \E c \in Senders, s \in Served, n \in MsgIds :
           \E data \in Payloads(s, n, ReqShapes) \cup OddPayloads(s) :
               S3SendUnary(c, s, n, data)
    \/ \E c \in Senders : S3WaitTick(c)
    \/ \E c \in Senders : S3WaitTimeout(c)
    \/ \E c \in Senders : ClientDeadline(c)

\* The filesystem transport, with the handler and the client on it: what
\* the two processes do.
ProgramFS ==
    \/ \E s \in Served : FSWatchSubscribe(s)
    \/ \E s \in Served : FSWatchScan(s)
    \/ \E s \in Served : FSInitPush(s)
    \/ \E s \in Served : FSInitPanic(s)
    \/ \E s \in Served : FSRequestsCallback(s)
    \/ \E s \in Served : HandlerClosed(s)
    \/ \E c \in Senders : FSWaitSubscribe(c)
    \/ \E c \in Senders : FSWaitReturn(c)
    \/ \E c \in Senders : FSResponseCallback(c)
    \/ \E o \in Served \cup Senders : FSSubPark(o)
    \/ \E o \in Served \cup Senders : FSSubDropped(o)
    \/ \E o \in Served \cup Senders : FSSubCtxDone(o)
    \/ \E p \in Procs : FSPushToSubscribers(p)

\* What is done to them: a request is sent, the caller's deadline passes, a
\* session is created.
InputFS ==
    \/ \E c \in Senders, s \in Served, n \in MsgIds :
           \E data \in Payloads(s, n, FSReqShapes) : FSSendUnary(c, s, n, data)
    \/ \E c \in Senders : ClientDeadline(c)
    \/ \E s \in Sessions : CreateSession(s)

NextFS == ProgramFS \/ InputFS

\* The server on the object store: any configuration of binaries, any store.
InitS3 ==
    \E bins \in {{"kubectl"}, {}}, k \in 0..MaxId :
        \E answered \in SUBSET (1..k) : InitWith("s3", bins, k, answered)

\* The server on the filesystem.
InitFS ==
    \E k \in 0..MaxId :
        \E answered \in SUBSET (1..k) : InitWith("fs", {"kubectl"}, k, answered)

Init == InitS3 \/ InitFS

Next == NextTasks \/ NextS3 \/ NextFS

Spec == Init /\ [][Next]_vars

\* The filesystem deployment when every command exits in time.
SpecFS == InitFS /\ [][NextRun \/ NextFS]_vars

\* The filesystem deployment the liveness properties are about: the store
\* holds at most one request, answered or not, and every request sent is one
\* the policy accepts and whose command exits in time.
InitFair ==
    \E k \in 0..1 :
        \E answered \in SUBSET (1..k) : InitWith("fs", {"kubectl"}, k, answered)

RunFair ==
    \/ \E s \in Served : TaskExec(s)
    \/ \E s \in Served : TaskExit(s)

InputFair ==
    \/ \E c \in Senders, s \in Served, n \in MsgIds :
           \E data \in Payloads(s, n, {<<CallTypeUnary, "kubectl", <<"get">>>>}) :
               FSSendUnary(c, s, n, data)
    \/ \E c \in Senders : ClientDeadline(c)
    \/ \E s \in Sessions : CreateSession(s)

\* Under a fair scheduler: a goroutine that can take a step eventually takes
\* one.  Nothing is assumed of the inputs.
FairFS ==
    /\ InitFair
    /\ [][RunFair \/ ProgramFS \/ InputFair]_vars
    /\ WF_vars(RunFair \/ ProgramFS)

\* The same deployment when the root context may be cancelled: the handler
\* then leaves its loop.
NextCancel ==
    \/ RootCancel
    \/ \E s \in Served : HandlerCancel(s)

FairCancel ==
    /\ InitFair
    /\ [][RunFair \/ ProgramFS \/ InputFair \/ NextCancel]_vars
    /\ WF_vars(RunFair \/ ProgramFS \/ \E s \in Served : HandlerCancel(s))

\* The sessions of a deployment: the server's Run subscribes to the stream
\* of sessions, clients create sessions and send a request into a session,
\* whether it was created or not.
InitSessions == \E b \in Backends : InitWith(b, {"kubectl"}, 0, {})

ProgramSessions ==
    \/ FSWatchSessionsSubscribe
    \/ FSWatchSessionsList
    \/ \E s \in Sessions : FSSessInitPush(s)
    \/ FSSessInitPanic
    \/ FSSessionsCallback
    \/ FSSubPark(SessionsWatch)
    \/ FSSubDropped(SessionsWatch)
    \/ FSSubCtxDone(SessionsWatch)
    \/ FSPushToSubscribers("server")
    \/ RunWatcherClosed
    \/ S3WatchSessions
    \/ S3SessPollTick
    \/ S3SessPollDone
    \/ RunWatchFailed
    \/ \E s \in Sessions : RunNewSession(s)
    \/ RunAddUnlock
    \/ \E c \in Clients : FSCreateMkdir(c)

InputSessions ==
    \/ \E c \in Clients, s \in Sessions : FSCreateStat(c, s)
    \/ \E c \in Clients, s \in Sessions : S3CreateSession(c, s)
    \/ \E c \in Senders, s \in Sessions :
           \E data \in Payloads(s, 1, {<<CallTypeUnary, "kubectl", <<"get">>>>}) :
               \/ FSSendUnary(c, s, 1, data)
               \/ S3SendUnary(c, s, 1, data)
    \/ RootCancel

SpecSessions == InitSessions /\ [][ProgramSessions \/ InputSessions]_vars

\* The filesystem deployment under a fair scheduler, with a root context
\* that nobody cancels from outside: a goroutine that can take a step
\* eventually takes one, and nothing is assumed of the calls that start.
ProgramFairSessions ==
    \/ FSWatchSessionsSubscribe
    \/ FSWatchSessionsList
    \/ \E s \in Sessions : FSSessInitPush(s)
    \/ FSSessInitPanic
    \/ FSSessionsCallback
    \/ FSSubPark(SessionsWatch)
    \/ FSSubDropped(SessionsWatch)
    \/ FSPushToSubscribers("server")
    \/ RunWatcherClosed
    \/ RunAddUnlock
    \/ \E c \in Clients : FSCreateMkdir(c)

FairSessions ==
    /\ InitWith("fs", {"kubectl"}, 0, {})
    /\ [][ProgramFairSessions
            \/ \E c \in Clients, s \in Sessions : FSCreateStat(c, s)]_vars
    /\ WF_vars(ProgramFairSessions)

\* The dispatcher on the object store with the handlers it starts: sessions
\* are created while Run watches, one request is sent, the root context may
\* be cancelled.
ProgramDispatch ==
    \/ S3WatchSessions
    \/ S3SessPollTick
    \/ S3SessPollDone
    \/ RunWatchFailed
    \/ \E s \in Sessions : RunNewSession(s)
    \/ RunAddUnlock
    \/ RunCtxDone
    \/ RunWatcherClosed
    \/ \E s \in Sessions : HandlerStarted(s) /\ S3WatchRequests(s)
    \/ \E s \in Sessions : HandlerWatchFailed(s)
    \/ \E s \in Sessions : S3PollDone(s)
    \/ \E s \in Sessions : HandlerRecv(s)
    \/ \E s \in Sessions : HandlerCancel(s)
    \/ \E s \in Sessions : HandlerClosed(s)
    \/ \E s \in Sessions : removeSessionHandler(s)
    \/ \E s \in Sessions : HandlerExit(s)
    \/ \E s \in Sessions : TaskExec(s)
    \/ \E s \in Sessions : TaskExit(s)
    \/ \E s \in Sessions : TaskTimeout(s)

InputDispatch ==
    \/ \E c \in Clients, s \in Sessions : S3CreateSession(c, s)
    \/ \E c \in Senders, s \in Sessions :
           \E data \in Payloads(s, 1, {<<CallTypeUnary, "kubectl", <<"get">>>>}) :
               S3SendUnary(c, s, 1, data)
    \/ RootCancel

SpecDispatch ==
    InitWith("s3", {"kubectl"}, 0, {}) /\ [][ProgramDispatch \/ InputDispatch]_vars

\* The same under a fair scheduler: a goroutine of the server that can take
\* a step eventually takes one.
FairDispatch == SpecDispatch /\ WF_vars(ProgramDispatch)

\* Two clients on the filesystem that each send one request into session
\* s1, c1 with id 1 and c2 with id 2, while the server answers and a second
\* session may be created.
IdOf(c) == IF c = "c1" THEN 1 ELSE 2

ProgramPair ==
    \/ \E s \in Served : FSWatchSubscribe(s)
    \/ \E s \in Served : FSWatchScan(s)
    \/ \E s \in Served : FSInitPush(s)
    \/ \E s \in Served : TaskExec(s)
    \/ \E s \in Served : TaskExit(s)
    \/ \E c \in Clients : FSWaitSubscribe(c)
    \/ \E c \in Clients : FSWaitReturn(c)
    \/ \E c \in Clients : FSResponseCallback(c)
    \/ \E o \in Clients : FSSubPark(o)
    \/ \E o \in Clients : FSSubDropped(o)
    \/ \E p \in Clients : FSPushToSubscribers(p)

InputPair ==
    \/ \E c \in Clients, s \in Served :
           \E data \in Payloads(s, IdOf(c), {<<CallTypeUnary, "kubectl", <<"get">>>>}) :
               FSSendUnary(c, s, IdOf(c), data)
    \/ \E s \in Sessions : CreateSession(s)

SpecPair == InitWith("fs", {"kubectl"}, 0, {}) /\ [][ProgramPair \/ InputPair]_vars

\* The object store with requests in both sessions, each carrying the
\* session id of either: the server serves s1 only.
InitIsolation ==
    \E k \in 0..1 : \E answered \in SUBSET (1..k) :
        InitWith("s3", {"kubectl"}, k, answered)

NextIsolation ==
    \/ NextRun
    \/ \E s \in Served : S3WatchRequests(s)
    \/ \E s \in Served : S3PollTick(s)
    \/ \E s \in Served : HandlerRecv(s)
    \/ \E c \in Clients, s \in Sessions, sid \in Sessions, n \in MsgIds :
           \E data \in Payloads(sid, n, FSReqShapes) : S3SendUnary(c, s, n, data)
    \/ \E c \in Clients : S3WaitTick(c)

SpecIsolation == InitIsolation /\ [][NextIsolation]_vars

(***************************************************************************)
(* GetLastRequestID over the names a listing of the session returns.       *)
(***************************************************************************)
\* The loop of GetLastRequestID: the largest id parseRequestIdFromFilename
\* finds, starting from 0.
RECURSIVE LastFrom(_, _)
LastFrom(last, names) ==
    IF names = <<>> THEN last
    ELSE LET r == parseRequestIdFromFilename(Head(names))
         IN LastFrom(IF ~r.err /\ r.id > last THEN r.id ELSE last, Tail(names))

\* The names a session may hold: requests and responses of a few ids, and
\* names that are neither.
ListedIds == {2, 3, 10}

OtherNames ==
    <<<<NumPart(12), TxtPart("req.yaml"), TxtPart("x")>>,
      <<TxtPart("x"), TxtPart("req.yaml")>>,
      <<NumPart(11), TxtPart("req.yaml.tmp")>>>>

AllNames ==
    NamesOf(AscSeq(ListedIds), [n \in ListedIds |-> File(Garbage)],
            [n \in ListedIds |-> File(Garbage)]) \o OtherNames

\* A listing: the names of AllNames at the positions kept.
ListingOf(kept) ==
    LET Keep(name) == \E i \in kept : AllNames[i] = name
    IN SelectSeq(AllNames, Keep)

\* Transport.GetLastRequestID of a session whose listing returns the names
\* kept: FSTransport checks HasSession first.
GetLastRequestID(s, kept) ==
    /\ ~lastCall.done
    /\ lastCall' =
          IF backend = "fs" /\ ~HasSession(s)
          THEN LastCall(<<>>, TRUE, 0, "session does not exist")
          ELSE LastCall(ListingOf(kept), TRUE, LastFrom(0, ListingOf(kept)), "")
    /\ UNCHANGED <<configVars, storeVars, rootCancelled, crashed, handlerVars,
                   outClosed, taskVars, cl, fsVars, sessVars, sentIds, codec, initial>>

SpecLast ==
    /\ \E b \in Backends : InitWith(b, {"kubectl"}, 0, {})
    /\ [][\E s \in Sessions, kept \in SUBSET (1..Len(AllNames)) :
             GetLastRequestID(s, kept)]_vars

\* The handler computing the timeouts of two requests.
SpecTimeout ==
    /\ InitWith("s3", {"kubectl"}, 0, {})
    /\ [][\E reqMs \in RequestTimeouts, d \in ConfiguredTimeouts :
             Cardinality(timeouts) < 2 /\ HandleTimeout(reqMs, d)]_vars

(***************************************************************************)
(* Client.Send, as the kubectl command of the client calls it: one process *)
(* per call.                                                               *)
(***************************************************************************)
\* The request kubectlCmd builds: Request.ID is left unset.
KubectlRequest(s, args) == Request(s, 0, CallTypeUnary, "kubectl", args)

\* The first test of Client.Send: a stream request is refused.
SendTakesAnyType(req) == FALSE

SendRefuses(req) == req.type = CallTypeStream

\* Client.Send of a new client process: a stream request is refused; any
\* other is serialized and handed to the transport's SendUnary under the id
\* the request carries.
ClientSend(c, req) ==
    /\ cl[c].pc \in {"idle", "ok", "err"}
    /\ Len(sentIds[c]) < MaxId
    /\ subs' = [subs EXCEPT ![c] = NoSubscriber]
    /\ outClosed' = [outClosed EXCEPT ![c] = FALSE]
    /\ IF SendRefuses(req)
       THEN /\ cl' = [cl EXCEPT ![c] =
                         Call("err", req.sessionID, req.id, FALSE, Garbage,
                              "streaming requests are not supported yet")]
            /\ events' = [events EXCEPT ![c] = <<>>]
            /\ UNCHANGED <<reqs, sentIds>>
       ELSE IF backend = "fs" /\ ~HasSession(req.sessionID)
       THEN /\ cl' = [cl EXCEPT ![c] =
                         Call("err", req.sessionID, req.id, FALSE, Garbage,
                              "session does not exist")]
            /\ events' = [events EXCEPT ![c] = <<>>]
            /\ UNCHANGED <<reqs, sentIds>>
       ELSE /\ PutRequest(req.sessionID, req.id, MarshalRequest(req))
            /\ sentIds' = [sentIds EXCEPT ![c] = Append(@, req.id)]
            /\ cl' = [cl EXCEPT ![c] =
                         Call(IF backend = "fs" THEN "wrote" ELSE "wait",
                              req.sessionID, req.id, FALSE, Garbage, "")]
            /\ \E reported \in BOOLEAN :
                   events' = [p \in Procs |->
                       IF p = c THEN <<>>
                       ELSE IF backend = "fs" /\ p \in Watching /\ reported
                       THEN Append(events[p],
                                Event(IF reqs[req.sessionID][req.id].present
                                      THEN "WRITE" ELSE "CREATE",
                                      requestPath(req.sessionID, req.id)))
                       ELSE events[p]]
    /\ UNCHANGED <<configVars, sessVars, lastCall, marker, ress, resWrites,
                   rootCancelled, crashed, handlerVars, taskVars, codec, initial>>

\* Clients that run the kubectl command again and again on session s1; each
\* call ends when its deadline passes.
NextSend ==
    \/ \E c \in Clients, s \in Served, type \in CallTypes, args \in ArgLists :
           ClientSend(c, [KubectlRequest(s, args) EXCEPT !.type = type])
    \/ \E c \in Clients : ClientDeadline(c)
    \/ \E c \in Clients : S3WaitTimeout(c)
    \/ \E c \in Clients : FSWaitSubscribe(c)
    \/ \E c \in Clients : FSSubPark(c)
    \/ \E c \in Clients : FSSubDropped(c)
    \/ \E c \in Clients : FSSubCtxDone(c)
    \/ \E c \in Clients : FSResponseCallback(c)
    \/ \E c \in Clients : FSPushToSubscribers(c)
    \/ \E c \in Clients : FSWaitReturn(c)
    \/ \E s \in Sessions : CreateSession(s)

SpecSend ==
    /\ \E b \in Backends : InitWith(b, {"kubectl"}, 0, {})
    /\ [][NextSend]_vars

(***************************************************************************)
(* The messages on the wire: yaml.Marshal and yaml.Unmarshal (yaml.v2) of  *)
(* protocol.Request and protocol.Response.  A document maps the keys of    *)
(* the struct tags to nodes; a scalar node has a style and a text.  A      *)
(* plain scalar is resolved by its text: null, bool, int or str.           *)
(***************************************************************************)
\* The integers and the texts the checked messages are built from.
WireInts == {-1, 0, 1, 7}

WireTexts == {"", "kubectl", "null", "7", "true", "NAME STATUS\nnode Ready\n"}

HasNewline(text) == text \in {"NAME STATUS\nnode Ready\n"}

\* strconv of a plain scalar's text.
ParseInt(text) == CHOOSE n \in WireInts : ToString(n) = text

Resolve(text) ==
    IF text \in {"", "~", "null"} THEN "null"
    ELSE IF text \in {"true", "false", "yes", "no", "on", "off"} THEN "bool"
    ELSE IF \E n \in WireInts : ToString(n) = text THEN "int"
    ELSE "str"

Scalar(style, text) == [style |-> style, text |-> text]

\* The encoder writes a string plain only if its text resolves to a string.
AlwaysPlain(text) == TRUE

CanUsePlain(text) == Resolve(text) = "str"

EncodeString(text) ==
    IF HasNewline(text) THEN Scalar("literal", text)
    ELSE IF CanUsePlain(text) THEN Scalar("plain", text)
    ELSE Scalar("quoted", text)

EncodeInt(n) == Scalar("plain", ToString(n))

\* Decoding a scalar into a string field: a plain null gives the zero
\* value, any other scalar its text.
DecodeString(node) ==
    IF node.style = "plain" /\ Resolve(node.text) = "null" THEN ""
    ELSE node.text

\* Decoding a scalar into an int field: a plain scalar that resolves to an
\* int; a plain null gives the zero value.
DecodeInt(node) ==
    IF node.style = "plain" /\ Resolve(node.text) = "int"
    THEN [v |-> ParseInt(node.text), err |-> FALSE]
    ELSE IF node.style = "plain" /\ Resolve(node.text) = "null"
    THEN [v |-> 0, err |-> FALSE]
    ELSE [v |-> 0, err |-> TRUE]

\* omitempty: the key is left out for the zero value.
IsZero(n) == n = 0

\* protocol.Request with its Context, and protocol.Context.
WireRequest(sid, id, type, cmd, args, timeout) ==
    [id |-> id, type |-> type, cmd |-> cmd, args |-> args, sessionID |-> sid,
     context |-> [timeout |-> timeout]]

EncodeContext(c) ==
    IF IsZero(c.timeout) THEN <<>>
    ELSE ("timeout" :> EncodeInt(c.timeout))

EncodeRequest(r) ==
    ("sessionID" :> EncodeString(r.sessionID)) @@ ("id" :> EncodeInt(r.id))
    @@ ("type" :> EncodeString(r.type)) @@ ("cmd" :> EncodeString(r.cmd))
    @@ ("args" :> [i \in 1..Len(r.args) |-> EncodeString(r.args[i])])
    @@ ("context" :> EncodeContext(r.context))

EncodeResponse(p) ==
    ("requestID" :> EncodeInt(p.requestID))
    @@ ("sequenceID" :> EncodeInt(p.sequenceID))
    @@ ("exitCode" :> EncodeInt(p.exitCode))
    @@ ("output" :> EncodeString(p.output))

\* A key the document lacks leaves the field at its zero value.
StringAt(doc, key) == IF key \in DOMAIN doc THEN DecodeString(doc[key]) ELSE ""

IntAt(doc, key) ==
    IF key \in DOMAIN doc THEN DecodeInt(doc[key])
    ELSE [v |-> 0, err |-> FALSE]

DecodeRequest(doc) ==
    LET args == IF "args" \in DOMAIN doc
                THEN [i \in DOMAIN doc["args"] |-> DecodeString(doc["args"][i])]
                ELSE <<>>
        ctx == IF "context" \in DOMAIN doc THEN doc["context"] ELSE <<>>
    IN [req |-> WireRequest(StringAt(doc, "sessionID"), IntAt(doc, "id").v,
                            StringAt(doc, "type"), StringAt(doc, "cmd"), args,
                            IntAt(ctx, "timeout").v),
        err |-> IntAt(doc, "id").err \/ IntAt(ctx, "timeout").err]

DecodeResponse(doc) ==
    [res |-> Response(IntAt(doc, "requestID").v, IntAt(doc, "sequenceID").v,
                      IntAt(doc, "exitCode").v, StringAt(doc, "output")),
     err |-> IntAt(doc, "requestID").err \/ IntAt(doc, "sequenceID").err
                \/ IntAt(doc, "exitCode").err]

\* The requests and responses the round trip is checked on: every text in
\* every string field, empty args, no timeout.
WireRequests ==
    {WireRequest(sid, id, type, cmd, args, timeout) :
        sid \in {"s1", "null"}, id \in {0, 7}, type \in CallTypes,
        cmd \in WireTexts,
        args \in {<<>>, <<"get", "">>, <<"NAME STATUS\nnode Ready\n", "7">>},
        timeout \in {0, 7}}

WireResponses ==
    {Response(id, 0, code, output) :
        id \in {0, 7}, code \in WireInts, output \in WireTexts}

\* Client.Send marshals a request and the server unmarshals it.
SendRequestOnWire(r) ==
    /\ codec' = {[sent |-> r, got |-> DecodeRequest(EncodeRequest(r)).req,
                  err |-> DecodeRequest(EncodeRequest(r)).err]}
    /\ UNCHANGED <<configVars, sessVars, lastCall, sentIds, initial, storeVars,
                   rootCancelled, crashed, handlerVars, outClosed, taskVars,
                   cl, fsVars>>

\* sendResponse marshals a response and Client.Send unmarshals it.
SendResponseOnWire(p) ==
    /\ codec' = {[sent |-> p, got |-> DecodeResponse(EncodeResponse(p)).res,
                  err |-> DecodeResponse(EncodeResponse(p)).err]}
    /\ UNCHANGED <<configVars, sessVars, lastCall, sentIds, initial, storeVars,
                   rootCancelled, crashed, handlerVars, outClosed, taskVars,
                   cl, fsVars>>

SpecWire ==
    /\ InitWith("s3", {"kubectl"}, 0, {})
    /\ [][\/ \E r \in WireRequests : SendRequestOnWire(r)
          \/ \E p \in WireResponses : SendResponseOnWire(p)]_vars

\* WatchSessions or WatchRequests is called: the first ListObjectsV2 of
\* readAllSessions (forwardAllUnansweredRequests) returns n sessions
\* (unanswered requests), none of them sent before.
S3WatchCalled(kind, n) ==
    /\ initial.pc = "off"
    /\ initial' = WatchCall(kind, "initial", n, 0)
    /\ UNCHANGED <<configVars, sessVars, lastCall, sentIds, codec, storeVars,
                   rootCancelled, crashed, handlerVars, outClosed, taskVars,
                   cl, fsVars>>

\* out <- item inside the call: the caller does not have the stream yet, so
\* the send completes only while the buffer has room.
S3InitialSend ==
    /\ initial.pc = "initial"
    /\ initial.todo > 0
    /\ initial.buf < ChanCap
    /\ initial' = [initial EXCEPT !.todo = @ - 1, !.buf = @ + 1]
    /\ UNCHANGED <<configVars, sessVars, lastCall, sentIds, codec, storeVars,
                   rootCancelled, crashed, handlerVars, outClosed, taskVars,
                   cl, fsVars>>

\* The initial list is sent: go repeatUntilDone(...) and return out, nil.
S3WatchReturned ==
    /\ initial.pc = "initial"
    /\ initial.todo = 0
    /\ initial' = [initial EXCEPT !.pc = "polling"]
    /\ UNCHANGED <<configVars, sessVars, lastCall, sentIds, codec, storeVars,
                   rootCancelled, crashed, handlerVars, outClosed, taskVars,
                   cl, fsVars>>

\* The caller receives one item from the stream it was given.
S3StreamReceive ==
    /\ initial.pc = "polling"
    /\ initial.buf > 0
    /\ initial' = [initial EXCEPT !.buf = @ - 1]
    /\ UNCHANGED <<configVars, sessVars, lastCall, sentIds, codec, storeVars,
                   rootCancelled, crashed, handlerVars, outClosed, taskVars,
                   cl, fsVars>>

\* A tick of repeatUntilDone: the listing returns n items to send.
S3PollListed(n) ==
    /\ initial.pc = "polling"
    /\ initial.todo = 0
    /\ n > 0
    /\ initial' = [initial EXCEPT !.todo = n]
    /\ UNCHANGED <<configVars, sessVars, lastCall, sentIds, codec, storeVars,
                   rootCancelled, crashed, handlerVars, outClosed, taskVars,
                   cl, fsVars>>

\* out <- item in the polling goroutine, which waits for room in the buffer.
S3PollSend ==
    /\ initial.pc = "polling"
    /\ initial.todo > 0
    /\ initial.buf < ChanCap
    /\ initial' = [initial EXCEPT !.todo = @ - 1, !.buf = @ + 1]
    /\ UNCHANGED <<configVars, sessVars, lastCall, sentIds, codec, storeVars,
                   rootCancelled, crashed, handlerVars, outClosed, taskVars,
                   cl, fsVars>>

SpecInitial ==
    /\ InitWith("s3", {"kubectl"}, 0, {})
    /\ [][\/ \E kind \in {"sessions", "requests"}, n \in 0..MaxListed :
                 S3WatchCalled(kind, n)
          \/ S3InitialSend
          \/ S3WatchReturned
          \/ S3StreamReceive
          \/ \E n \in 0..MaxListed : S3PollListed(n)
          \/ S3PollSend]_vars

(***************************************************************************)
(* The properties.                                                         *)
(***************************************************************************)
\* The requests of session s that have no response.
Unanswered(s) == {n \in FileIds : reqs[s][n].present /\ ~ress[s][n].present}

\* The requests of session s that have a response.
Answered(s) == {n \in FileIds : reqs[s][n].present /\ ress[s][n].present}

\* The ids WatchRequests has read and not handed to the handler yet.
ToEmit(s) == {outBuf[s][i].ID : i \in 1..Len(outBuf[s])} \cup fwd[s].pending

\* C1: the command executor runs a request only if the request is unary, its
\* cmd is kubectl and a binary is configured for it, its args are not empty
\* and args[0] is get or describe; no other request has a running command.
C1_ExecutorAllowList ==
    \A s \in Sessions : \A t \in TasksOf(s) :
        t.st = "run" =>
            /\ t.req.type = CallTypeUnary
            /\ t.req.cmd = "kubectl"
            /\ t.req.cmd \in binaries
            /\ Len(t.req.args) >= 1
            /\ t.req.args[1] \in {"get", "describe"}

\* A command is running for one request while another was refused by policy.
C1_Witness ==
    /\ \E t \in TasksOf("s1") : t.st = "run"
    /\ \E e \in refused : e.s = "s1" /\ e.what \in RejectMsgs

\* C2: every request the server refused by policy has a response in its
\* session with requestID the request's id, sequenceID 0, exitCode -1 and
\* the error message in output.
C2_RejectedIsAnswered ==
    \A e \in refused :
        e.what \in RejectMsgs =>
            ress[e.s][e.id] =
                File(MarshalResponse(Response(e.id, 0, -1, ErrOutput(e.what))))

\* The pairs of session s that were there when the server started, and so
\* when WatchRequests subscribed: the response is not one this server wrote.
AnsweredAtStart(s) == {n \in Answered(s) : resWrites[s][n] = 0}

\* C3: when WatchRequests subscribes, what it reads to emit is exactly the
\* set of requests without a response, in every order of the listing; and a
\* request whose response was there at subscription is never emitted.
C3_OnlyUnansweredEmitted ==
    [][\A s \in Sessions :
          /\ (hpc[s] # "loop" /\ hpc'[s] = "loop") => ToEmit(s)' = Unanswered(s)
          /\ \A n \in AnsweredAtStart(s) : emitted'[s][n] = emitted[s][n]]_vars

\* The handler of s1 is subscribed over an answered pair and an unanswered
\* request: the unanswered one was emitted, the answered one was not.
C3_Witness ==
    /\ hpc["s1"] = "loop"
    /\ \E n \in AnsweredAtStart("s1") : emitted["s1"][n] = 0
    /\ \E m \in FileIds : emitted["s1"][m] >= 1

\* C4: within one WatchRequests subscription every request id is emitted at
\* most once.
C4_EmittedAtMostOnce ==
    \A s \in Sessions : \A n \in FileIds : emitted[s][n] <= 1

\* C5: within a subscription that is not cancelled, every request that is in
\* the session without a response, whether it was there at subscription time
\* or written later, is eventually emitted on the stream.
C5_EveryRequestEmitted ==
    \A n \in MsgIds :
        [](hpc["s1"] = "loop" /\ n \in Unanswered("s1")
              => <>(emitted["s1"][n] >= 1))

\* C6: the response of a request id in a session is written at most once.
C6_ResponseWrittenOnce ==
    \A s \in Sessions : \A n \in FileIds : resWrites[s][n] <= 1

\* C7: every response N in a session has a request N in the same session
\* (requests are never removed, so one that was written earlier is there).
C7_ResponseHasRequest ==
    \A s \in Sessions : \A n \in FileIds :
        ress[s][n].present => reqs[s][n].present

\* The request client c has written and waits on is one the policy accepts.
Accepted(c) ==
    /\ cl[c].pc \in {"wrote", "wait"}
    /\ LET d == UnmarshalRequest(reqs[cl[c].s][cl[c].id].data)
       IN /\ ~d.err
          /\ d.req.id = cl[c].id
          /\ Verdict(d.req) = "run"

\* The call of client c returned a response to its request: requestID is the
\* request's id and sequenceID is 0.
ReturnedResponse(c) ==
    /\ cl[c].pc = "ok"
    /\ cl[c].data.wf
    /\ cl[c].data.kind = "response"
    /\ cl[c].data.doc.requestID = cl[c].id
    /\ cl[c].data.doc.sequenceID = 0

\* C8: with a running server and an existing session, a client that sent a
\* request the allow-list accepts, whose command exits in time, eventually
\* gets a response with requestID the request's id and sequenceID 0, unless
\* its own deadline fires first.
C8_AcceptedIsAnswered ==
    \A c \in Senders :
        [](Accepted(c) => <>(ReturnedResponse(c) \/ cl[c].cancelled))

\* C9: a SendUnary call returns successfully only when the response of its
\* own session and request id exists, and with that response's data.
C9_ReturnsOwnResponse ==
    [][\A c \in Clients :
          (cl[c].pc # "ok" /\ cl'[c].pc = "ok") =>
              /\ ress[cl'[c].s][cl'[c].id].present
              /\ cl'[c].data = ress[cl'[c].s][cl'[c].id].data]_vars

\* A call returned its response while the session holds another response
\* with other data.
C9_Witness ==
    /\ cl["c1"].pc = "ok"
    /\ cl["c1"].data = ress[cl["c1"].s][cl["c1"].id].data
    /\ \E m \in FileIds :
           /\ m # cl["c1"].id
           /\ ress[cl["c1"].s][m].present
           /\ ress[cl["c1"].s][m].data # cl["c1"].data

\* C10: a SendUnary call whose caller's deadline fires while it waits, with no
\* response in the session, eventually returns an error, and its request
\* stays in the session.
C10_CancelledCallReturns ==
    \A c \in Senders :
        [](cl[c].pc = "wait" /\ cl[c].cancelled
              /\ ~ress[cl[c].s][cl[c].id].present
              => <>(cl[c].pc = "err" /\ reqs[cl[c].s][cl[c].id].present))

\* C11: a SendUnary call that waits while the response of its request is in
\* the session returns that response, with no further file event or write
\* needed (unless the caller's deadline fires first).
C11_ExistingResponseReturned ==
    \A c \in Senders :
        [](cl[c].pc = "wait" /\ ress[cl[c].s][cl[c].id].present
              => <>(cl[c].pc = "ok" \/ cl[c].cancelled))

\* C12: a SendUnary call on a session whose marker is absent ends with the
\* error NoSession and writes no request.
C12_NoSessionNoWrite ==
    [][\A c \in Clients :
          cl[c].pc = "idle" /\ cl'[c].pc # "idle" /\ ~HasSession(cl'[c].s)
              => /\ cl'[c].pc = "err"
                 /\ cl'[c].err = "session does not exist"
                 /\ reqs' = reqs]_vars

\* C13: a SendUnary call that waits, and whose deadline has not passed, ends
\* only by returning a response: no other call, response or file event makes
\* it fail.
C13_WaitingCallNotFailed ==
    [][\A c \in Clients :
          cl[c].pc = "wait" /\ ~cl[c].cancelled
              => cl'[c].pc \in {"wait", "ok"}]_vars

\* C14: a CreateSession call succeeds only when the marker of its session is
\* absent, and then the marker is there; a call made while the marker is
\* there fails with AlreadyExists and leaves the store as it was.
C14_CreateOnlyWhenAbsent ==
    [][\A c \in Clients :
          /\ mk[c].pc # "ok" /\ mk'[c].pc = "ok"
                => ~HasSession(mk'[c].s) /\ mk'[c].s \in marker'
          /\ mk[c].pc = "idle" /\ mk'[c].pc # "idle" /\ HasSession(mk'[c].s)
                => /\ mk'[c].pc = "err"
                   /\ mk'[c].err = "session already exists"
                   /\ storeVars' = storeVars]_vars

\* C15: of the CreateSession calls of one session id at most one succeeds.
C15_OneCreateSucceeds == \A s \in Sessions : creates[s] <= 1

\* C16: the handler of a session is handed only messages that lie in its
\* session, and a response is written only into the session of the handler
\* whose request it answers, whatever session id the payload carries.
C16_SessionIsolation ==
    [][\A s \in Sessions :
          /\ \A i \in (Len(outBuf[s]) + 1)..Len(outBuf'[s]) :
                 /\ reqs[s][outBuf'[s][i].ID].present
                 /\ reqs[s][outBuf'[s][i].ID].data = outBuf'[s][i].Data
          /\ \A t \in BagToSet(tasks'[s]) :
                 t.st = "new" /\ CopiesIn(t, tasks'[s]) > CopiesIn(t, tasks[s])
                    => /\ outBuf[s] # <<>>
                       /\ UnmarshalRequest(Head(outBuf[s]).Data) =
                              [req |-> t.req, err |-> FALSE]
          /\ ress'[s] # ress[s]
                 => \E t \in BagToSet(tasks[s]) :
                        /\ CopiesIn(t, tasks'[s]) < CopiesIn(t, tasks[s])
                        /\ ress'[s][t.req.id].present]_vars

\* A request that carries the id of session s2 was sent into s1 and answered
\* there, while s2 holds a request of its own.
C16_Witness ==
    \E n \in MsgIds :
        /\ reqs["s1"][n].present
        /\ reqs["s1"][n].data.wf
        /\ reqs["s1"][n].data.doc.sessionID = "s2"
        /\ resWrites["s1"][n] > 0
        /\ \E m \in MsgIds : reqs["s2"][m].present

\* C17: within one WatchSessions subscription no session id is sent on the
\* stream twice.
C17_SessionEmittedOnce == \A s \in Sessions : sessEmitted[s] <= 1

\* Both sessions were sent, one of them created by a client, and a later
\* poll has listed them again.
C17_Witness ==
    /\ ws.pc = "run"
    /\ ws.ticks > 0
    /\ creates["s2"] > 0
    /\ \A s \in Sessions : sessEmitted[s] = 1 /\ s \in ws.existing

\* C18: a session whose marker exists while the subscription runs, whether
\* it was there at subscription or was created afterwards, is eventually
\* sent on the stream.
C18_EverySessionEmitted ==
    \A s \in Sessions :
        [](HasSession(s) /\ ws.pc # "off" => <>(sessEmitted[s] > 0))

\* C19: GetLastRequestID returns the largest N whose request name
\* <N>-req.yaml is listed, 0 when there is none; response names and other
\* names do not influence the result.
C19_LargestRequestId ==
    lastCall.done /\ lastCall.err = ""
        => LET listed == {n \in ListedIds :
                             \E i \in 1..Len(lastCall.names) :
                                 lastCall.names[i] = ReqFileName(n)}
           IN /\ listed = {} => lastCall.id = 0
              /\ listed # {} => /\ lastCall.id \in listed
                                /\ \A n \in listed : n <= lastCall.id

\* C20: the requests consecutive Send calls of one client write into one
\* session carry strictly increasing ids that start at 1, also when an
\* earlier call ended with a timeout.
C20_SendIdsIncrease ==
    \A c \in Clients :
        /\ sentIds[c] # <<>> => sentIds[c][1] = 1
        /\ \A i \in 1..(Len(sentIds[c]) - 1) : sentIds[c][i] < sentIds[c][i + 1]

\* C21: no two clients write a request of one session under the same id, so
\* no request is overwritten with another client's payload.
C21_IdsDoNotCollide ==
    \A c \in Clients : \A d \in Clients \ {c} :
        \A i \in 1..Len(sentIds[c]), j \in 1..Len(sentIds[d]) :
            sentIds[c][i] # sentIds[d][j]

\* C22: when a handler hands the response of a finished command to
\* SendResponse on a session whose marker exists, the response of that
\* request id is in the session afterwards; nothing is written into a
\* session whose marker is absent.
C22_SendResponseWrites ==
    [][\A s \in Sessions :
          /\ ~HasSession(s) => ress'[s] = ress[s]
          /\ \A t \in TasksOf(s) :
                 /\ HasSession(s)
                 /\ t.st = "run"
                 /\ CopiesIn(t, tasks'[s]) < CopiesIn(t, tasks[s])
                 => /\ ress'[s][t.req.id].present
                    /\ ress'[s][t.req.id].data.kind = "response"
                    /\ ress'[s][t.req.id].data.doc.requestID = t.req.id]_vars

\* C23: when a handling task ends while its child process runs, because the
\* deadline of the request fired or the child exited, the child runs no
\* longer: a deadline that fires terminates the child.
C23_DeadlineEndsChild ==
    [][\A s \in Sessions : \A t \in TasksOf(s) :
          t.st = "run" /\ CopiesIn(t, tasks'[s]) < CopiesIn(t, tasks[s])
              => CopiesIn(t.req, children'[s]) < CopiesIn(t.req, children[s])]_vars

\* C24: the effective timeout of a request is the smaller of the timeout
\* the request supplies and the timeout configured for its type, and the
\* configured one when the request supplies none; it is never larger than
\* the configured one, and never zero when the type is configured.
C24_EffectiveTimeoutIsMin ==
    \A t \in timeouts :
        /\ t.reqMs = 0 => t.effective = t.defaultTimeout
        /\ t.reqMs # 0 =>
               t.effective = IF t.reqMs * Millisecond < t.defaultTimeout
                             THEN t.reqMs * Millisecond
                             ELSE t.defaultTimeout
        /\ t.effective <= t.defaultTimeout
        /\ t.defaultTimeout > 0 => t.effective # 0

\* C25: the dispatcher runs at most one handler per session id, the keys of
\* the session map are the ids of the handlers that were started and have not
\* given their entry up, and the map changes only in a step of a goroutine
\* that holds the sessions mutex.
C25_OneHandlerPerSession ==
    /\ [](\A s \in Sessions : disp.running[s] <= 1)
    /\ [](disp.sessions =
            {s \in Sessions : disp.running[s] > 0 /\ disp.sessionsMutex # s})
    /\ [][disp'.sessions # disp.sessions => disp'.sessionsMutex # "free"]_vars

\* The handler of s1 has returned and removed itself while the handler of
\* s2, a session created after the server started, is in its loop.
C25_Witness ==
    /\ disp.sessions = {"s2"}
    /\ disp.running["s1"] = 0
    /\ hpc["s1"] = "stopped"
    /\ hpc["s2"] = "loop"
    /\ disp.sessionsMutex = "free"

\* Run has returned, every handler has stopped and removed itself from the
\* map, and no task is in flight.
AllStopped ==
    /\ disp.returned
    /\ disp.sessions = {}
    /\ \A s \in Sessions : disp.running[s] = 0 /\ tasks[s] = EmptyBag

\* C26: once the root context is cancelled, eventually Run has returned,
\* every handler has stopped and removed itself from the map and no task is
\* in flight; the command of a task that was in flight at the cancellation is
\* ended; and after the cancellation no session is sent on the stream of
\* sessions, so that a handler is started only for a session that was in the
\* stream before.
C26_CancelStopsAll ==
    /\ rootCancelled ~> AllStopped
    /\ \A s \in Sessions :
           (rootCancelled /\ tasks[s] # EmptyBag) ~> (children[s] = EmptyBag)
    /\ [][rootCancelled =>
              /\ sessEmitted' = sessEmitted
              /\ \A s \in Sessions :
                     disp'.running[s] > disp.running[s] => s \in ws.pending]_vars

\* C27: whatever happens to a request (a payload that cannot be decoded, a
\* file that cannot be read, a stream that closes, a command that is
\* rejected or fails, a response that cannot be published), the server does
\* not panic.
C27_NoPanic == ~crashed

\* C28: a decoded request whose type is not unary is answered with a
\* response that carries exitCode -1 and an output that says why, and no
\* command is executed for it.
C28_NonUnaryIsAnswered ==
    /\ \A e \in refused :
           e.what = "unsupported request type" =>
               \E out \in {"error: unsupported request type"} \cup
                               {ErrOutput(m) : m \in RejectMsgs} :
                   ress[e.s][e.id] =
                       File(MarshalResponse(Response(e.id, 0, -1, out)))
    /\ \A s \in Sessions : \A t \in TasksOf(s) :
           t.st = "run" => t.req.type = CallTypeUnary

\* C29: a Send of a stream request fails as unsupported before the client
\* touches the transport: the step that refuses it writes nothing, allocates
\* no id and notifies nobody, and no request of type stream is ever in a
\* session.
C29_StreamRefusedFirst ==
    /\ [](\A s \in Sessions, n \in FileIds :
             reqs[s][n].present =>
                 UnmarshalRequest(reqs[s][n].data).req.type # CallTypeStream)
    /\ [][\A c \in Clients :
             (cl'[c] # cl[c]
                 /\ cl'[c].err = "streaming requests are not supported yet") =>
                 /\ cl'[c].pc = "err"
                 /\ UNCHANGED <<storeVars, sentIds>>
                 /\ \A p \in Procs \ {c} : events'[p] = events[p]]_vars

\* A client whose Send of a stream request failed, with nothing sent and no
\* request in any session.
C29_Witness ==
    \E c \in Clients :
        /\ cl[c].pc = "err"
        /\ cl[c].err = "streaming requests are not supported yet"
        /\ sentIds[c] = <<>>
        /\ \A s \in Sessions, n \in FileIds : ~reqs[s][n].present

\* C30: exitCode -1 is for what the server itself refused or could not do:
\* the response a task writes for a child that ran and ended, by an exit or
\* by a signal, does not carry exitCode -1.
C30_ChildNeverMinusOne ==
    [][\A s \in Sessions : \A t \in TasksOf(s) :
          /\ t.st = "run"
          /\ CopiesIn(t.req, children'[s]) < CopiesIn(t.req, children[s])
          /\ resWrites'[s][t.req.id] > resWrites[s][t.req.id]
          => ress'[s][t.req.id].data.doc.exitCode # -1]_vars

C32_OnlyExactNames ==
    \A i \in 1..Len(lastCall.names) :
        LET name == lastCall.names[i]
            rq == parseRequestIdFromFilename(name)
            rs == parseResponseIdFromFilename(name)
        IN /\ ~rq.err => name = ReqFileName(rq.id)
           /\ ~rs.err => name = ResFileName(rs.id)
           /\ (\E n \in ListedIds : name = ReqFileName(n)) => ~rq.err
           /\ (\E n \in ListedIds : name = ResFileName(n)) => ~rs.err

\* C33: the step in which a handler finds that a message does not decode
\* starts no task and no child, writes no response and leaves the handler in
\* its loop; and a message the handler receives from its stream that does
\* decode gets its task, whatever was refused before.
C33_UndecodableIsSkipped ==
    [][\A s \in Sessions :
          /\ (\E e \in refused' \ refused :
                  e.s = s /\ e.what = "cannot unmarshal request")
             => /\ tasks'[s] = tasks[s]
                /\ children'[s] = children[s]
                /\ ress'[s] = ress[s]
                /\ hpc'[s] = hpc[s]
          /\ (/\ hpc[s] = "loop"
              /\ Len(outBuf'[s]) < Len(outBuf[s])
              /\ ~UnmarshalRequest(Head(outBuf[s]).Data).err)
             => tasks'[s] = tasks[s] (+) SetToBag(
                    {Task(UnmarshalRequest(Head(outBuf[s]).Data).req, "new")})]_vars

\* The handler of s1 has refused a message that does not decode and is in
\* its loop, with a request that decodes behind it in the stream.
C33_Witness ==
    /\ hpc["s1"] = "loop"
    /\ \E e \in refused : e.s = "s1" /\ e.what = "cannot unmarshal request"
    /\ outBuf["s1"] # <<>>
    /\ ~UnmarshalRequest(Head(outBuf["s1"]).Data).err
    /\ tasks["s1"] = EmptyBag

Alive(p) == IF p \in Clients THEN cl[p].pc = "wait" ELSE ~crashed

C36_DroppedResynchronises ==
    \A o \in Served \cup Senders :
        (subs[o].closed /\ ~subs[o].reg /\ ~SubCtxDone(o))
            ~> \/ subs[o].reg
               \/ outClosed[o]
               \/ SubCtxDone(o)
               \/ o \in Clients /\ cl[o].pc # "wait"

\* C37: once the caller of WatchRequests has cancelled the context of the
\* subscription, the stream of the subscription is eventually closed, if the
\* process lives.
C37_CancelClosesStream ==
    \A s \in Served :
        (rootCancelled /\ subs[s] # NoSubscriber) ~> (outClosed[s] \/ crashed)

\* C38: the stream of a WatchRequests or WatchSessions subscription is not
\* closed while the context of its caller is active, and the handler of a
\* session does not leave its loop before the cancellation.
C38_OpenWhileActive ==
    \A o \in Sessions \cup {SessionsWatch} :
        /\ outClosed[o] => rootCancelled
        /\ o \in Sessions /\ hpc[o] = "stopped" => rootCancelled

\* C39: no goroutine is about to send on a stream that done() has closed
\* (neither the goroutine of the initial list of WatchRequests nor that of
\* WatchSessions), and a subscriber whose event channel was closed is no
\* longer in the table of subscribers.
C39_NoSendAfterClose ==
    /\ \A s \in Sessions :
           backend = "fs" /\ outClosed[s] => ~(fwd[s].pc = "init" /\ fwd[s].pending # {})
    /\ backend = "fs" /\ outClosed[SessionsWatch] => ws.pending = {}
    /\ \A o \in Owners : subs[o].closed => ~subs[o].reg

\* C40: a call of the object store's WatchSessions or WatchRequests that is
\* emitting its initial list can always take its next step, the next send or
\* the return of the stream, however many items were listed: it never blocks
\* for ever.
C40_InitialListNeverBlocks ==
    initial.pc = "initial" => ENABLED (S3InitialSend \/ S3WatchReturned)

====
